---- MODULE Spec2Model ----
(***************************************************************************)
(* Manuscript Calendar (Obsidian plugin): the calendar view's render path. *)
(* The model follows the current ManuscriptCalendarView of src/main.ts     *)
(* (lines 1286-2766): getWeekNumber, the highest-stage scan of             *)
(* renderCalendar/updateMonthDisplay and the classification, week          *)
(* aggregation and day-cell resolution of renderCalendarBody.              *)
(*                                                                         *)
(* Time.  A Date is its instant in hours since 2023-01-01T00:00Z, a        *)
(* Sunday.  A calendar day is its day number since that date, so the day   *)
(* of the week of day n is n % 7 (0 = Sunday).  The host's time zone is a  *)
(* fixed offset tz (local = UTC + tz hours).  A date key "YYYY-MM-DD" is   *)
(* the day number it names.                                                *)
(***************************************************************************)
EXTENDS Integers, Sequences, FiniteSets, TLC

VARIABLES
    pages,               \* what the Dataview query returns, in query order
    dataview,            \* app.plugins.plugins.dataview is present
    now,                 \* the host clock (instant) read by new Date()
    tz,                  \* the host's offset from UTC, hours
    pc,                  \* where the view's renderCalendar stands
    currentDate,         \* view.currentDate (instant)
    currentHighestStage, \* view.currentHighestStage
    completedWeekStats,  \* view.completedWeekStats: week key -> stats
    todoFutureDates,     \* closure state of the last body render
    workingFutureDates,
    overdueDates,
    notesByDate,
    revisionMap,
    weekRows,            \* the table rows the last body render created
    manuscriptFolder,    \* plugin.settings.manuscriptFolder, as typed
    weekProbe,           \* a call of getWeekNumber: its argument and its result
    openTabs,            \* file paths of the workspace's markdown tabs, in order
    activeTab,           \* path of the tab brought to the front last, 0 if none
    lastClick,           \* what the last click on a day cell did
    timers,              \* the setTimeout callbacks of the plugin not yet run
    lastChange,          \* the last file notification the plugin received
    lastRefresh,         \* how the last refresh after a notification came about
    expectedMonth,       \* the month the navigation clicks add up to
    renderedSince,       \* a render began after the record source last changed
    queries,             \* the record queries of the body render and what it used
    renders,             \* the calls of renderCalendar that have not returned
    contentEl,           \* the tables in the view's container, each with its rows
    calendarTable        \* view.calendarTable: the table rows are added to

vars == <<pages, dataview, now, tz, pc, currentDate, currentHighestStage,
          completedWeekStats, todoFutureDates, workingFutureDates,
          overdueDates, notesByDate, revisionMap, weekRows, manuscriptFolder,
          weekProbe, openTabs, activeTab, lastClick, timers, lastChange,
          lastRefresh, expectedMonth, renderedSince, queries, renders,
          contentEl, calendarTable>>

\* no call of getWeekNumber on its own
NoProbe == [arg |-> 0, result |-> 0]

\* the day cells of the rendered table
AllDayCells == {weekRows[r].cells[c] : r \in 1 .. Len(weekRows), c \in 1 .. 7}

\* no click yet
NoClick == [date |-> 0 - 1, wasOpen |-> {}, targets |-> << >>, revealed |-> {},
            opened |-> << >>]

\* the state of the host around the view
hostVars == <<manuscriptFolder, weekProbe, openTabs, activeTab, lastClick,
              timers, lastChange, lastRefresh, expectedMonth, renderedSince,
              queries, renders, contentEl, calendarTable>>

\* the state only the session, query and overlap specifications follow
sideVars == <<expectedMonth, renderedSince, queries, renders, contentEl,
              calendarTable>>

\* no query issued yet: the forms tried, each with its outcome; whether
\* index.touch() was awaited and how it ended; whether the outer catch was
\* entered; whether the querying is over, and the pages it left
NoQueries == [attempts |-> << >>, touched |-> "no", caught |-> FALSE,
              done |-> FALSE, used |-> << >>]

SideAtRest ==
    /\ expectedMonth = 0
    /\ renderedSince = TRUE
    /\ queries = NoQueries
    /\ renders = << >>
    /\ contentEl = << >>
    /\ calendarTable = 0

\* no callback waits
NoTimers == [first |-> 0, second |-> 0]

\* no file notification yet
NoChange == [isFile |-> FALSE, folder |-> << >>, pending |-> FALSE]

\* no notification, no callback, no refresh after a notification
NotifyAtRest == timers = NoTimers /\ lastChange = NoChange /\ lastRefresh = "none"

\* no call of getWeekNumber on its own
ProbeAtRest == weekProbe = NoProbe

\* an empty workspace, nothing clicked
WorkspaceAtRest == openTabs = << >> /\ activeTab = 0 /\ lastClick = NoClick

\* nothing going on around the view
HostAtRest == ProbeAtRest /\ WorkspaceAtRest /\ NotifyAtRest /\ SideAtRest

-----------------------------------------------------------------------------
(* Bounds of the model                                                     *)

\* most notes a query returns in the classification specification
MaxPages == 2
\* most notes a query returns in the stage-resolver specification
MaxStagePages == 3
\* most notes of the vault in the folder-scope specification
MaxFolderPages == 2
\* most notes a query returns in the word-count specification
MaxWordPages == 3
\* most notes a query returns in the click specification
MaxClickPages == 2
\* most markdown tabs of the workspace in the click specification
MaxTabs == 4
\* most notes a query returns in the stage-name specification
MaxNamePages == 2
MaxNotifyPages == 1
MaxTimers == 2
MaxDuePages == 2
MaxSessionPages == 1
MaxShift == 2

\* notes in the vault of the query-by-query render
MaxQueryPages == 2

\* notes in the vault, and calls of renderCalendar, of the overlapping renders
MaxOverlapPages == 1
MaxRenderStarts == 3

\* host offsets from UTC, hours (west, UTC, east)
TZOffsets == {0 - 5, 0, 2}
\* local hours of the day at which the view renders
LocalHours == {0, 23}

-----------------------------------------------------------------------------
(* The proleptic Gregorian calendar, as the host's Date implements it      *)

IsLeap(y) == (y % 4 = 0 /\ y % 100 # 0) \/ y % 400 = 0

LeapsBefore(y) == ((y - 1) \div 4) - ((y - 1) \div 100) + ((y - 1) \div 400)

\* day number of January 1 of year y
YearStart(y) == 365 * (y - 2023) + LeapsBefore(y) - LeapsBefore(2023)

\* days of the year before month m (0-based), m in 0..12
CumDays(y, m) ==
    LET plain == <<0, 31, 59, 90, 120, 151, 181, 212, 243, 273, 304, 334, 365>>
    IN  plain[m + 1] + (IF IsLeap(y) /\ m >= 2 THEN 1 ELSE 0)

YearOf(n) ==
    CHOOSE y \in (2023 + (n \div 366)) .. (2023 + (n \div 365)) :
        YearStart(y) <= n /\ n < YearStart(y + 1)

MonthOf(n) ==
    LET y == YearOf(n)
        doy == n - YearStart(y)
    IN  CHOOSE m \in 0 .. 11 : CumDays(y, m) <= doy /\ doy < CumDays(y, m + 1)

DayOfMonth(n) == n - YearStart(YearOf(n)) - CumDays(YearOf(n), MonthOf(n)) + 1

\* day number of the civil date (y, m, d); m may leave 0..11 and d may leave
\* the month: the Date constructor carries both over
DaysFromCivil(y, m, d) ==
    LET yy == y + (m \div 12)
        mm == m % 12
    IN  YearStart(yy) + CumDays(yy, mm) + d - 1

-----------------------------------------------------------------------------
(* Date methods                                                            *)

LocalDay(t) == (t + tz) \div 24

\* new Date(year, month, day): local midnight of that civil date
NewDateLocal(y, m, d) == DaysFromCivil(y, m, d) * 24 - tz

\* Date.UTC(year, month, day)
DateUTC(y, m, d) == DaysFromCivil(y, m, d) * 24

\* the civil date of every day of the years the model visits, computed once
CalendarDays == YearStart(2023) .. (YearStart(2050) - 1)
Civil == [n \in CalendarDays |->
             LET y == YearOf(n)
                 doy == n - YearStart(y)
                 m == CHOOSE k \in 0 .. 11 : CumDays(y, k) <= doy /\ doy < CumDays(y, k + 1)
             IN  [year |-> y, month |-> m, date |-> doy - CumDays(y, m) + 1]]

GetFullYear(t) == Civil[LocalDay(t)].year
GetMonth(t) == Civil[LocalDay(t)].month
GetDate(t) == Civil[LocalDay(t)].date
GetDay(t) == LocalDay(t) % 7
GetUTCDay(t) == (t \div 24) % 7

\* date.setHours(0,0,0,0): local midnight of the date's local day
SetHoursZero(t) == LocalDay(t) * 24 - tz

\* date.setDate(date.getDate() + k)
AddDays(t, k) == t + 24 * k

\* date.toISOString().split('T')[0]: the UTC calendar day
ToISODateKey(t) == t \div 24

\* date.toDateString(): the local calendar day
ToDateString(t) == LocalDay(t)

-----------------------------------------------------------------------------
(* Frontmatter values (DataviewPage).  A field holding a string or a list  *)
(* of strings is [isArr, v]; a missing field is None.                      *)

None == [isArr |-> FALSE, v |-> <<>>]
Str(s) == [isArr |-> FALSE, v |-> <<s>>]
Arr(a) == [isArr |-> TRUE, v |-> a]

\* JavaScript truthiness of such a field: a list is truthy even when empty
Truthy(x) == x.isArr \/ (Len(x.v) = 1 /\ x.v[1] # "")

\* Array.isArray(x) ? x.includes(s) : x === s
IncludesOrEquals(x, s) ==
    IF x.isArr THEN \E i \in 1 .. Len(x.v) : x.v[i] = s
    ELSE Len(x.v) = 1 /\ x.v[1] = s

\* String(x): a list is joined with commas
RECURSIVE JoinComma(_)
JoinComma(a) ==
    IF Len(a) = 0 THEN ""
    ELSE IF Len(a) = 1 THEN a[1]
    ELSE a[1] \o "," \o JoinComma(Tail(a))

StringOf(x) == IF x.isArr THEN JoinComma(x.v) ELSE x.v[1]

\* s.toUpperCase() on the strings the model's notes carry
ToUpperCase(s) ==
    CASE s = "Zero" -> "ZERO"
      [] s = "zero" -> "ZERO"
      [] s = "First" -> "FIRST"
      [] s = "first" -> "FIRST"
      [] s = "Editing" -> "EDITING"
      [] s = "editing" -> "EDITING"
      [] s = "Press" -> "PRESS"
      [] s = "press" -> "PRESS"
      [] s = "Author" -> "AUTHOR"
      [] s = "author" -> "AUTHOR"
      [] s = "House" -> "HOUSE"
      [] s = "house" -> "HOUSE"
      [] s = "Draft" -> "DRAFT"
      [] s = "Zero,House" -> "ZERO,HOUSE"
      [] s = "House,Zero" -> "HOUSE,ZERO"
      [] OTHER -> s

\* s.trim().toLowerCase() on the strings the model's notes carry
TrimLowerCase(s) ==
    CASE s = "Complete" -> "complete"
      [] s = "COMPLETE" -> "complete"
      [] s = " Complete " -> "complete"
      [] s = "Todo" -> "todo"
      [] s = "Working" -> "working"
      [] s = "Draft" -> "draft"
      [] OTHER -> s

\* s.toLowerCase() on canonical stage names (used for CSS classes)
StageClass(s) ==
    CASE s = "ZERO" -> "stage-zero"
      [] s = "AUTHOR" -> "stage-author"
      [] s = "HOUSE" -> "stage-house"
      [] s = "PRESS" -> "stage-press"
      [] s = "FIRST" -> "stage-first"
      [] s = "EDITING" -> "stage-editing"
      [] s = "DRAFT" -> "stage-draft"
      [] OTHER -> "stage-" \o s

(* Due: a missing value, an unparsable string, a "YYYY-MM-DD" string or a  *)
(* link object whose path is such a string; day is the day the string      *)
(* names.                                                                  *)
NoDue == [kind |-> "none", day |-> 0]
BadDue == [kind |-> "bad", day |-> 0]
DueStr(d) == [kind |-> "str", day |-> d]
DueLink(d) == [kind |-> "link", day |-> d]

DueTruthy(due) == due.kind # "none"
\* a Date that is taken as valid whatever the text
DueValidAlways(due) == TRUE
\* !isNaN(new Date(rawDate).getTime())
DueValid(due) == due.kind \in {"str", "link"}
\* new Date("YYYY-MM-DD"): midnight UTC of that day
NewDateOfDue(due) == due.day * 24

(* Words / Word Count: missing, a number, or a string of characters        *)
NoWords == [kind |-> "none", n |-> 0, s |-> <<>>]
WordsNum(n) == [kind |-> "num", n |-> n, s |-> <<>>]
WordsStr(s) == [kind |-> "str", n |-> 0, s |-> s]

Digits == {"0", "1", "2", "3", "4", "5", "6", "7", "8", "9"}
DigitVal(c) ==
    CASE c = "0" -> 0 [] c = "1" -> 1 [] c = "2" -> 2 [] c = "3" -> 3
      [] c = "4" -> 4 [] c = "5" -> 5 [] c = "6" -> 6 [] c = "7" -> 7
      [] c = "8" -> 8 [] c = "9" -> 9

\* value of the longest prefix of digits of s, continuing from acc
RECURSIVE DigitPrefix(_, _)
DigitPrefix(s, acc) ==
    IF Len(s) = 0 \/ Head(s) \notin Digits THEN acc
    ELSE DigitPrefix(Tail(s), 10 * acc + DigitVal(Head(s)))

RECURSIVE TrimLeft(_)
TrimLeft(s) == IF Len(s) > 0 /\ Head(s) = " " THEN TrimLeft(Tail(s)) ELSE s

\* parseInt on the text as it stands: it stops at the first comma
ParseIntKeepingCommas(s) ==
    LET clean == TrimLeft(s)
    IN  IF Len(clean) = 0 \/ Head(clean) \notin Digits THEN 0
        ELSE DigitPrefix(clean, 0)

\* wordCount.replace(/,/g, '').trim(), then parseInt(..., 10), NaN as 0
ParseIntOrZero(s) ==
    LET clean == TrimLeft(SelectSeq(s, LAMBDA c : c # ","))
    IN  IF Len(clean) = 0 \/ Head(clean) \notin Digits THEN 0
        ELSE DigitPrefix(clean, 0)

parseWordCount(w) ==
    IF w.kind = "num" THEN w.n
    ELSE IF w.kind = "str" THEN ParseIntOrZero(w.s)
    ELSE 0

WordsTruthy(w) == (w.kind = "num" /\ w.n # 0) \/ (w.kind = "str" /\ Len(w.s) > 0)

\* page["Words"] || page["Word Count"] || 0
WordsArgument(page) ==
    IF WordsTruthy(page.Words) THEN page.Words
    ELSE IF WordsTruthy(page.WordCount) THEN page.WordCount
    ELSE WordsNum(0)

isNoteComplete(note) ==
    /\ Truthy(note.Status)
    /\ \E i \in 1 .. Len(note.Status.v) :
           TrimLowerCase(note.Status.v[i]) = "complete"

-----------------------------------------------------------------------------
(* getWeekNumber                                                           *)

\* the week number without the special case of the next year's first week
getWeekNumberPlain(date) ==
    LET currentYear == GetFullYear(date)
        targetDate == DateUTC(currentYear, GetMonth(date), GetDate(date))
        sundayDate == targetDate - 24 * GetUTCDay(targetDate)
        firstOfCurrentYear == DateUTC(currentYear, 0, 1)
        firstWeekSunday == firstOfCurrentYear - 24 * GetUTCDay(firstOfCurrentYear)
    IN  (((sundayDate - firstWeekSunday) \div 24) \div 7) + 1

getWeekNumber(date) ==
    LET currentYear == GetFullYear(date)
        targetDate == DateUTC(currentYear, GetMonth(date), GetDate(date))
        dayOfWeek == GetUTCDay(targetDate)
        sundayDate == targetDate - 24 * dayOfWeek
        firstOfNextYear == DateUTC(currentYear + 1, 0, 1)
        saturdayDate == sundayDate + 24 * 6
        firstOfCurrentYear == DateUTC(currentYear, 0, 1)
        firstWeekSunday == firstOfCurrentYear - 24 * GetUTCDay(firstOfCurrentYear)
        diffDays == (sundayDate - firstWeekSunday) \div 24
    IN  IF sundayDate < firstOfNextYear /\ saturdayDate >= firstOfNextYear
        THEN 1
        ELSE (diffDays \div 7) + 1

\* the key `${date.getFullYear()}-W${weekNum}` of completedWeekStats
WeekYearKey(date) == <<GetFullYear(date), getWeekNumber(date)>>

-----------------------------------------------------------------------------
(* Stages                                                                  *)

stages == <<"ZERO", "AUTHOR", "HOUSE", "PRESS">>

\* stageRank.get(s) ?? 0
StageRankOrZero(s) ==
    IF \E i \in 1 .. Len(stages) : stages[i] = s
    THEN (CHOOSE i \in 1 .. Len(stages) : stages[i] = s) - 1
    ELSE 0

\* the resolver's normalization: String(x).toUpperCase(), then the legacy names
ResolverStage(stage) ==
    LET up == ToUpperCase(StringOf(stage))
    IN  IF up = "FIRST" THEN "AUTHOR"
        ELSE IF up = "EDITING" THEN "HOUSE"
        ELSE up

\* the scan with the last stage seen kept instead of the highest
RECURSIVE ScanLastStage(_, _, _)
ScanLastStage(pgs, i, highestStageIndex) ==
    IF i > Len(pgs) THEN highestStageIndex
    ELSE IF Truthy(pgs[i].Stage)
         THEN ScanLastStage(pgs, i + 1, StageRankOrZero(ResolverStage(pgs[i].Stage)))
         ELSE ScanLastStage(pgs, i + 1, highestStageIndex)

\* pages.forEach of updateMonthDisplay, from page i on, with the index so far
RECURSIVE ScanHighestStage(_, _, _)
ScanHighestStage(pgs, i, highestStageIndex) ==
    IF i > Len(pgs) THEN highestStageIndex
    ELSE LET page == pgs[i]
             stageIndex == StageRankOrZero(ResolverStage(page.Stage))
         IN  IF Truthy(page.Stage) /\ stageIndex > highestStageIndex
             THEN ScanHighestStage(pgs, i + 1, stageIndex)
             ELSE ScanHighestStage(pgs, i + 1, highestStageIndex)

HighestStage(pgs) == stages[ScanHighestStage(pgs, 1, 0) + 1]

\* the stageMap of renderCalendarBody
LegacyStageKeys == {"Zero", "First", "Editing", "Press"}
LegacyStage(s) ==
    CASE s = "Zero" -> "ZERO"
      [] s = "First" -> "AUTHOR"
      [] s = "Editing" -> "HOUSE"
      [] s = "Press" -> "PRESS"

\* page["Publish Stage"] || "ZERO", first element of a list
RawPublishStage(stage) ==
    IF ~Truthy(stage) THEN "ZERO"
    ELSE IF stage.isArr
         THEN (IF Len(stage.v) > 0 /\ stage.v[1] # "" THEN stage.v[1] ELSE "ZERO")
         ELSE stage.v[1]

\* the per-record classifier's normalization
BodyStage(stage) ==
    LET raw == RawPublishStage(stage)
    IN  IF raw \in LegacyStageKeys THEN LegacyStage(raw) ELSE ToUpperCase(raw)

\* typeof page.Revision === 'number' ? page.Revision : 0
RevisionOf(page) == IF Len(page.Revision) = 1 THEN page.Revision[1] ELSE 0

-----------------------------------------------------------------------------
(* Record filters of renderCalendarBody                                    *)

hasSceneClass(page) ==
    Truthy(page.Class) /\ IncludesOrEquals(page.Class, "Scene")

hasRelevantStatus(page) ==
    /\ Truthy(page.Status)
    /\ (IncludesOrEquals(page.Status, "Todo") \/ IncludesOrEquals(page.Status, "Working"))

isWorking(page) == IncludesOrEquals(page.Status, "Working")

isNotComplete(page) ==
    Truthy(page.Status) /\ ~IncludesOrEquals(page.Status, "Complete")

hasCompleteStatus(page) ==
    Truthy(page.Status) /\ IncludesOrEquals(page.Status, "Complete")

\* the Due value gives a valid Date
DueParses(page) == DueTruthy(page.Due) /\ DueValid(page.Due)

dueDateOf(page) == NewDateOfDue(page.Due)

\* today after the overdue filter ran: every page with a valid Due date makes
\* the filter call today.setHours(0,0,0,0), which changes today itself
TodayAfterFilters(pgs, today) ==
    IF \E i \in 1 .. Len(pgs) : DueParses(pgs[i]) THEN SetHoursZero(today) ELSE today

todoOrWorkingPages(pgs) ==
    SelectSeq(pgs, LAMBDA page : hasSceneClass(page) /\ hasRelevantStatus(page))

\* dueDate.setHours(0,0,0,0) >= today.setHours(0,0,0,0)
IsTodayOrFuture(page, today) ==
    DueParses(page) /\ SetHoursZero(dueDateOf(page)) >= SetHoursZero(today)

\* the key of a future page: taken after setHours changed dueDate
FutureDateKey(page) == ToISODateKey(SetHoursZero(dueDateOf(page)))

futurePages(pgs, today) ==
    SelectSeq(todoOrWorkingPages(pgs), LAMBDA page : IsTodayOrFuture(page, today))

isDueDateInPast(page, today) ==
    DueParses(page) /\ SetHoursZero(dueDateOf(page)) < SetHoursZero(today)

overduePages(pgs, today) ==
    SelectSeq(pgs, LAMBDA page :
        isNotComplete(page) /\ hasSceneClass(page) /\ isDueDateInPast(page, today))

\* the key of an overdue or completed page: dueDate as parsed
PlainDateKey(page) == ToISODateKey(dueDateOf(page))

completedScenes(pgs) ==
    SelectSeq(pgs, LAMBDA page : hasCompleteStatus(page) /\ hasSceneClass(page))

\* the completed pass without its cut at today
IsUpToAnyDay(page, today) == DueParses(page)

\* a completed scene passes `if (dueDate > today) return`
IsUpToToday(page, today) == DueParses(page) /\ ~(dueDateOf(page) > today)

\* the earlier policy: only scenes of the manuscript's highest stage count
shouldCountSceneStageGated(page, highest) ==
    IF highest = "ZERO"
    THEN BodyStage(page.Stage) = "ZERO" /\ RevisionOf(page) = 0
    ELSE BodyStage(page.Stage) = highest

\* const shouldCountScene = true
shouldCountScene(page, highest) == TRUE

\* the completed scenes that reach the bookkeeping of the forEach body
processedScenes(pgs, today) ==
    SelectSeq(completedScenes(pgs), LAMBDA page : IsUpToToday(page, today))

-----------------------------------------------------------------------------
(* The maps the body render fills.  A Map is a function on the keys set.   *)

EmptyMap == [k \in {} |-> k]

MapHas(map, k) == k \in DOMAIN map
MapGetList(map, k) == IF MapHas(map, k) THEN map[k] ELSE <<>>
MapSet(map, k, val) == (k :> val) @@ map

\* notesByDate after the future pages were pushed, in order
RECURSIVE PushFutureNotes(_, _)
PushFutureNotes(map, ps) ==
    IF Len(ps) = 0 THEN map
    ELSE LET page == Head(ps)
             dateKey == FutureDateKey(page)
         IN  PushFutureNotes(MapSet(map, dateKey, Append(MapGetList(map, dateKey), page)),
                             Tail(ps))

\* ... after the overdue pages: a page whose path is already listed is skipped
RECURSIVE PushOverdueNotes(_, _)
PushOverdueNotes(map, ps) ==
    IF Len(ps) = 0 THEN map
    ELSE LET page == Head(ps)
             dateKey == PlainDateKey(page)
             listed == MapGetList(map, dateKey)
             known == \E i \in 1 .. Len(listed) : listed[i].path = page.path
         IN  PushOverdueNotes(
                 MapSet(map, dateKey, IF known THEN listed ELSE Append(listed, page)),
                 Tail(ps))

\* ... after the completed scenes
RECURSIVE PushCompletedNotes(_, _)
PushCompletedNotes(map, ps) ==
    IF Len(ps) = 0 THEN map
    ELSE LET page == Head(ps)
             dateKey == PlainDateKey(page)
         IN  PushCompletedNotes(
                 MapSet(map, dateKey, Append(MapGetList(map, dateKey), page)),
                 Tail(ps))

\* revisionMap: the {revision, publishStage} entries of the completed scenes
RECURSIVE PushRevisions(_, _)
PushRevisions(map, ps) ==
    IF Len(ps) = 0 THEN map
    ELSE LET page == Head(ps)
             dateKey == PlainDateKey(page)
             entry == [revision |-> RevisionOf(page),
                       publishStage |-> BodyStage(page.Stage)]
         IN  PushRevisions(MapSet(map, dateKey, Append(MapGetList(map, dateKey), entry)),
                           Tail(ps))

\* completedWeekStats: stats.sceneCount++, stats.wordCount += wordCount
RECURSIVE AccumulateWeekStats(_, _, _)
AccumulateWeekStats(map, ps, highest) ==
    IF Len(ps) = 0 THEN map
    ELSE LET page == Head(ps)
             weekYear == WeekYearKey(dueDateOf(page))
             stats == IF MapHas(map, weekYear) THEN map[weekYear]
                      ELSE [sceneCount |-> 0, wordCount |-> 0]
             wordCount == parseWordCount(WordsArgument(page))
         IN  IF shouldCountScene(page, highest)
             THEN AccumulateWeekStats(
                      MapSet(map, weekYear,
                             [sceneCount |-> stats.sceneCount + 1,
                              wordCount |-> stats.wordCount + wordCount]),
                      Tail(ps), highest)
             ELSE AccumulateWeekStats(map, Tail(ps), highest)

\* folderPath.trim(): blanks removed at both ends
RECURSIVE TrimStart(_)
TrimStart(s) == IF s # << >> /\ Head(s) = " " THEN TrimStart(Tail(s)) ELSE s
RECURSIVE TrimEnd(_)
TrimEnd(s) ==
    IF s # << >> /\ s[Len(s)] = " " THEN TrimEnd(SubSeq(s, 1, Len(s) - 1)) ELSE s
Trim(s) == TrimEnd(TrimStart(s))

\* s.replace(/^\/+|\/+$/g, ''): slashes removed at both ends
RECURSIVE StripLeadingSlashes(_)
StripLeadingSlashes(s) ==
    IF s # << >> /\ Head(s) = "/" THEN StripLeadingSlashes(Tail(s)) ELSE s
RECURSIVE StripTrailingSlashes(_)
StripTrailingSlashes(s) ==
    IF s # << >> /\ s[Len(s)] = "/"
    THEN StripTrailingSlashes(SubSeq(s, 1, Len(s) - 1)) ELSE s
StripSlashes(s) == StripTrailingSlashes(StripLeadingSlashes(s))

\* !folderPath || folderPath.trim() === ""
FolderBlank(folder) == Trim(folder) = << >>

\* folderPath.trim().replace(/^\/+|\/+$/g, '')
CleanFolderPath(folder) == StripSlashes(Trim(folder))

StartsWith(s, prefix) ==
    Len(prefix) <= Len(s) /\ SubSeq(s, 1, Len(prefix)) = prefix

\* a folder source of the record source: the notes in the folder or below it
InFolderSource(page, folderPath) ==
    page.folder = folderPath \/ StartsWith(page.folder, folderPath \o <<"/">>)

PagesOfFolder(pgs, folderPath) ==
    LET Keep(page) == InFolderSource(page, folderPath)
    IN  SelectSeq(pgs, Keep)

\* the pages of a render that does not look whether Dataview is there
QueriedPagesUnchecked(accepted) ==
    IF FolderBlank(manuscriptFolder) \/ ~accepted THEN pages
    ELSE PagesOfFolder(pages, CleanFolderPath(manuscriptFolder))

\* the pages a render gets from the record source: none without Dataview,
\* all of them when the folder setting is blank or when the record source
\* rejected the folder queries, else those of the folder; a blank setting
\* makes no folder query, so there is nothing to accept or reject
QueriedPages(accepted) ==
    IF ~dataview THEN << >>
    ELSE IF FolderBlank(manuscriptFolder) \/ ~accepted THEN pages
    ELSE PagesOfFolder(pages, CleanFolderPath(manuscriptFolder))

BodyTodoFutureDates(pgs, today) ==
    LET ps == futurePages(pgs, today)
    IN  {FutureDateKey(ps[i]) : i \in {j \in 1 .. Len(ps) : ~isWorking(ps[j])}}

BodyWorkingFutureDates(pgs, today) ==
    LET ps == futurePages(pgs, today)
    IN  {FutureDateKey(ps[i]) : i \in {j \in 1 .. Len(ps) : isWorking(ps[j])}}

BodyOverdueDates(pgs, today) ==
    LET ps == overduePages(pgs, today)
    IN  {PlainDateKey(ps[i]) : i \in 1 .. Len(ps)}

BodyNotesByDate(pgs, today) ==
    PushCompletedNotes(
        PushOverdueNotes(
            PushFutureNotes(EmptyMap, futurePages(pgs, today)),
            overduePages(pgs, today)),
        processedScenes(pgs, TodayAfterFilters(pgs, today)))

BodyRevisionMap(pgs, today) ==
    PushRevisions(EmptyMap, processedScenes(pgs, TodayAfterFilters(pgs, today)))

BodyWeekStats(pgs, today, highest) ==
    AccumulateWeekStats(EmptyMap, processedScenes(pgs, TodayAfterFilters(pgs, today)),
                        highest)

-----------------------------------------------------------------------------
(* Day cells.  A dot is [cls, parts, revised]: the class beside            *)
(* "revision-dot", the classes of its "revision-part" children, and        *)
(* whether it carries the class "revised".                                 *)

Dot(cls) == [cls |-> cls, parts |-> <<>>, revised |-> FALSE]
SplitDot(left, right) == [cls |-> "split-revision", parts |-> <<left, right>>, revised |-> FALSE]

\* index of the first note of a list that isNoteComplete, 0 if none
FirstComplete(notes) ==
    IF \E i \in 1 .. Len(notes) : isNoteComplete(notes[i])
    THEN CHOOSE i \in 1 .. Len(notes) :
             /\ isNoteComplete(notes[i])
             /\ \A j \in 1 .. (i - 1) : ~isNoteComplete(notes[j])
    ELSE 0

\* the overdue day without the check for a completed note
OverdueDotsPlain(notes) == << Dot("overdue") >>

\* the dot of an overdue day: split when a listed note is complete
OverdueDots(notes) ==
    LET k == FirstComplete(notes)
    IN  IF k = 0 THEN << Dot("overdue") >>
        ELSE LET completedNote == notes[k]
                 stageCls == IF Truthy(completedNote.Stage)
                             THEN StageClass(BodyStage(completedNote.Stage))
                             ELSE "stage-zero"
             IN  << SplitDot(stageCls, "overdue") >>

\* the key of stageCheckMap whose value is the stage
LegacyKeyOf(stage) ==
    CASE stage = "ZERO" -> "Zero"
      [] stage = "AUTHOR" -> "First"
      [] stage = "HOUSE" -> "Editing"
      [] stage = "PRESS" -> "Press"

\* note['Publish Stage'] normalized for the 'revised' test
RevisedTestStage(stage) ==
    IF stage.isArr
    THEN (IF Len(stage.v) > 0 THEN ToUpperCase(stage.v[1]) ELSE "")
    ELSE (IF Len(stage.v) = 1 THEN ToUpperCase(stage.v[1]) ELSE "")

hasRevisedStageZero(notes) ==
    \E i \in 1 .. Len(notes) :
        /\ isNoteComplete(notes[i])
        /\ RevisedTestStage(notes[i].Stage) = "ZERO"
        /\ Len(notes[i].Revision) = 1 /\ notes[i].Revision[1] > 0

\* hasZeroRevision && hasNonZeroRevision && the date has a ZERO scene
ShowsSplitRevision(scenesForDate) ==
    /\ \E i \in 1 .. Len(scenesForDate) : scenesForDate[i].revision = 0
    /\ \E i \in 1 .. Len(scenesForDate) : scenesForDate[i].revision # 0
    /\ \E i \in 1 .. Len(scenesForDate) : scenesForDate[i].publishStage \in {"ZERO", "Zero"}

\* the dots of a day that shows its completed scenes
StageDots(scenesForDate, notes) ==
    LET stagesForDate == {scenesForDate[i].publishStage : i \in 1 .. Len(scenesForDate)}
        shown(stage) == stage \in stagesForDate \/ LegacyKeyOf(stage) \in stagesForDate
        stageDot(stage) ==
            IF shown(stage)
            THEN << [cls |-> StageClass(stage), parts |-> <<>>,
                     revised |-> stage = "ZERO" /\ hasRevisedStageZero(notes)] >>
            ELSE << >>
        plain == stageDot("ZERO") \o stageDot("AUTHOR") \o stageDot("HOUSE") \o stageDot("PRESS")
    IN  IF ShowsSplitRevision(scenesForDate)
        THEN SelectSeq(plain, LAMBDA d : d.cls # "stage-zero")
                 \o << SplitDot("stage-zero", "has-revision-part") >>
        ELSE plain

\* the states tested one after another without else
DayDotsUnchained(dateKey, rm, nbd, todo, working, overdue) ==
    (IF dateKey \in overdue THEN OverdueDots(MapGetList(nbd, dateKey)) ELSE << >>)
    \o (IF dateKey \in working THEN << Dot("working") >> ELSE << >>)
    \o (IF dateKey \in todo THEN << Dot("future-todo-dot") >> ELSE << >>)
    \o (IF MapHas(rm, dateKey) THEN StageDots(rm[dateKey], MapGetList(nbd, dateKey)) ELSE << >>)

\* the if / else-if chain: overdue, else working, else todo, else scenes
DayDots(dateKey, rm, nbd, todo, working, overdue) ==
    IF dateKey \in overdue THEN OverdueDots(MapGetList(nbd, dateKey))
    ELSE IF dateKey \in working THEN << Dot("working") >>
    ELSE IF dateKey \in todo THEN << Dot("future-todo-dot") >>
    ELSE IF MapHas(rm, dateKey) THEN StageDots(rm[dateKey], MapGetList(nbd, dateKey))
    ELSE << >>

DayCell(cellDate, today, currentMonth, rm, nbd, todo, working, overdue) ==
    LET dateKey == ToISODateKey(cellDate)
        clickable == \/ MapHas(rm, dateKey) \/ dateKey \in todo
                     \/ dateKey \in working \/ dateKey \in overdue
    IN  [day |-> LocalDay(cellDate),
         date |-> dateKey,
         otherMonth |-> GetMonth(cellDate) # currentMonth,
         today |-> ToDateString(cellDate) = ToDateString(today),
         clickable |-> clickable,
         futureTodo |-> dateKey \in todo,
         futureWorking |-> dateKey \in working,
         dots |-> IF clickable
                  THEN DayDots(dateKey, rm, nbd, todo, working, overdue)
                  ELSE << >>]

\* one table row: the week cell and the seven day cells from rowStart on
WeekRow(rowStart, today, currentMonth, stats, highest, rm, nbd, todo, working, overdue) ==
    LET weekYear == WeekYearKey(rowStart)
        counted == MapHas(stats, weekYear) /\ stats[weekYear].sceneCount >= 1
    IN  [weekNum |-> getWeekNumber(rowStart),
         weekYear |-> weekYear,
         hasRatio |-> counted,
         numerator |-> IF counted THEN stats[weekYear].sceneCount ELSE 0,
         denominator |-> IF counted THEN stats[weekYear].wordCount \div 100 ELSE 0,
         stageCls |-> IF counted THEN StageClass(highest) ELSE "",
         cells |-> [i \in 1 .. 7 |->
                       DayCell(AddDays(rowStart, i - 1), today, currentMonth,
                               rm, nbd, todo, working, overdue)]]

\* while (currentDate <= lastDay || currentDate.getDay() !== 0)
RECURSIVE BuildRows(_, _, _, _, _, _, _, _, _, _, _)
BuildRows(cur, lastDay, today, currentMonth, stats, highest, rm, nbd, todo, working, overdue) ==
    IF cur <= lastDay \/ GetDay(cur) # 0
    THEN << WeekRow(cur, today, currentMonth, stats, highest, rm, nbd, todo, working, overdue) >>
         \o BuildRows(AddDays(cur, 7), lastDay, today, currentMonth, stats, highest,
                      rm, nbd, todo, working, overdue)
    ELSE << >>

firstDisplayDayOf(date) ==
    LET firstDay == NewDateLocal(GetFullYear(date), GetMonth(date), 1)
    IN  AddDays(firstDay, 0 - GetDay(firstDay))

\* a month taken to end on its 21st
lastDayOfThreeWeeks(date) == NewDateLocal(GetFullYear(date), GetMonth(date), 21)

lastDayOf(date) == NewDateLocal(GetFullYear(date), GetMonth(date) + 1, 0)

-----------------------------------------------------------------------------
(* The notes of the vault the specifications draw from                     *)

\* folder names, as lists of characters
BookFolder == <<"B">>

Note(cls, status, due, revision, stage, words) ==
    [Class |-> cls, Status |-> status, Due |-> due, Revision |-> revision,
     Stage |-> stage, Words |-> words, WordCount |-> NoWords, folder |-> BookFolder]

\* the local calendar day on which the view is opened: 2025-01-01
OpenDays == {DaysFromCivil(2025, 0, 1)}

\* due dates around the day T: the day before, the day itself, the day after
DueDaysAround(T) == {T - 1, T, T + 1}

CompletedTemplates(T) ==
    {Note(Str("Scene"), Str("Complete"), DueStr(d), <<r>>, Str(st), WordsNum(1200)) :
        d \in DueDaysAround(T), r \in {0, 1}, st \in {"Zero", "AUTHOR"}}

PendingTemplates(T) ==
    {Note(Str("Scene"), Str(st), DueStr(d), <<>>, None, NoWords) :
        d \in DueDaysAround(T), st \in {"Todo", "Working"}}

OddTemplates(T) ==
    { Note(Str("Chapter"), Str("Complete"), DueStr(T - 1), <<0>>, Str("PRESS"), WordsNum(800)),
      Note(Str("Scene"), None, DueStr(T - 1), <<>>, None, NoWords),
      Note(Str("Scene"), Str("complete"), DueStr(T - 1), <<>>, None, NoWords),
      Note(Str("Scene"), Str("Draft"), DueStr(T - 1), <<>>, None, NoWords),
      Note(Str("Scene"), Str("Complete"), BadDue, <<0>>, Str("Zero"), WordsNum(500)),
      Note(Str("Scene"), Str("Complete"), NoDue, <<0>>, None, NoWords),
      Note(Arr(<<"Scene", "Draft">>), Arr(<<"Todo", "Working">>), DueLink(T + 1), <<>>, None,
           WordsStr(<<"1", ",", "5", "0", "0">>)) }

NoteTemplates(T) == CompletedTemplates(T) \cup PendingTemplates(T) \cup OddTemplates(T)

\* the query result made of the notes f lists; a note's path is its place
PageList(f) == [i \in DOMAIN f |-> [path |-> i] @@ f[i]]

-----------------------------------------------------------------------------
(* The view                                                                *)

TypeOK ==
    /\ dataview \in BOOLEAN
    /\ tz \in TZOffsets
    /\ pc \in {"header", "body", "idle"}
    /\ currentHighestStage \in {"ZERO", "AUTHOR", "HOUSE", "PRESS"}
    /\ manuscriptFolder \in Seq({"B", "N", "p", "/", " "})
    /\ openTabs \in Seq(Nat)
    /\ activeTab \in Nat
    /\ timers \in [first : Nat, second : Nat]
    /\ lastChange.pending \in BOOLEAN
    /\ lastRefresh \in {"none", "afterTouch", "direct"}
    /\ expectedMonth \in Int
    /\ renderedSince \in BOOLEAN
    /\ queries.done \in BOOLEAN
    /\ calendarTable \in Nat

\* the state when onOpen has emptied the container and entered renderCalendar
ViewOpened ==
    /\ pc = "header"
    /\ currentDate = now
    /\ currentHighestStage = "ZERO"
    /\ completedWeekStats = EmptyMap
    /\ todoFutureDates = {}
    /\ workingFutureDates = {}
    /\ overdueDates = {}
    /\ notesByDate = EmptyMap
    /\ revisionMap = EmptyMap
    /\ weekRows = << >>

Init ==
    /\ tz \in TZOffsets
    /\ \E T \in OpenDays, h \in LocalHours :
          /\ now = T * 24 + h - tz
          /\ \/ dataview = FALSE /\ pages = << >>
             \/ /\ dataview = TRUE
                /\ \E n \in 0 .. MaxPages : \E f \in [1 .. n -> NoteTemplates(T)] :
                      pages = PageList(f)
    /\ manuscriptFolder = << >>
    /\ HostAtRest
    /\ ViewOpened

\* updateMonthDisplay: the scan for the highest stage
UpdateMonthDisplay ==
    /\ pc = "header"
    /\ \E accepted \in IF FolderBlank(manuscriptFolder) THEN {TRUE} ELSE BOOLEAN :
          currentHighestStage' =
              IF dataview THEN HighestStage(QueriedPages(accepted))
              ELSE currentHighestStage
    /\ pc' = "body"
    /\ UNCHANGED <<pages, dataview, now, tz, currentDate, completedWeekStats,
                   todoFutureDates, workingFutureDates, overdueDates, notesByDate,
                   revisionMap, weekRows>>
    /\ UNCHANGED hostVars

\* renderCalendarBody from the pages the queries left on, with
\* today = new Date()
RenderBodyWith(pgs) ==
    LET today == now
        stats == BodyWeekStats(pgs, today, currentHighestStage)
        rm == BodyRevisionMap(pgs, today)
        nbd == BodyNotesByDate(pgs, today)
        todo == BodyTodoFutureDates(pgs, today)
        working == BodyWorkingFutureDates(pgs, today)
        overdue == BodyOverdueDates(pgs, today)
    IN  /\ completedWeekStats' = stats
        /\ revisionMap' = rm
        /\ notesByDate' = nbd
        /\ todoFutureDates' = todo
        /\ workingFutureDates' = working
        /\ overdueDates' = overdue
        /\ weekRows' = BuildRows(firstDisplayDayOf(currentDate), lastDayOf(currentDate),
                                 TodayAfterFilters(pgs, today), GetMonth(currentDate),
                                 stats, currentHighestStage, rm, nbd, todo, working, overdue)

\* renderCalendarBody, its queries taken in one step
RenderCalendarBody ==
    /\ pc = "body"
    /\ \E accepted \in IF FolderBlank(manuscriptFolder) THEN {TRUE} ELSE BOOLEAN :
          RenderBodyWith(QueriedPages(accepted))
    /\ pc' = "idle"
    /\ UNCHANGED <<pages, dataview, now, tz, currentDate, currentHighestStage>>
    /\ UNCHANGED hostVars

\* refreshCalendar: renderCalendar empties the container and starts over
RefreshCalendar ==
    /\ pc = "idle"
    /\ weekRows' = << >>
    /\ pc' = "header"
    /\ UNCHANGED <<pages, dataview, now, tz, currentDate, currentHighestStage,
                   completedWeekStats, todoFutureDates, workingFutureDates,
                   overdueDates, notesByDate, revisionMap>>
    /\ UNCHANGED hostVars

Next == UpdateMonthDisplay \/ RenderCalendarBody \/ RefreshCalendar

Spec == Init /\ [][Next]_vars

(* The same view over notes that differ in class and Publish Stage only    *)

StageTemplates ==
    { Note(Str("Scene"), None, NoDue, <<>>, None, NoWords),
      Note(Str("Scene"), None, NoDue, <<>>, Str("Zero"), NoWords),
      Note(Str("Scene"), None, NoDue, <<>>, Str("First"), NoWords),
      Note(Str("Scene"), None, NoDue, <<>>, Str("AUTHOR"), NoWords),
      Note(Str("Chapter"), None, NoDue, <<>>, Str("Editing"), NoWords),
      Note(Str("Scene"), None, NoDue, <<>>, Str("house"), NoWords),
      Note(None, None, NoDue, <<>>, Str("PRESS"), NoWords),
      Note(Str("Scene"), None, NoDue, <<>>, Str("Draft"), NoWords),
      Note(Str("Scene"), None, NoDue, <<>>, Arr(<<"House", "Zero">>), NoWords),
      Note(Str("Chapter"), None, NoDue, <<>>, Arr(<<"Press">>), NoWords) }

InitStage ==
    /\ tz = 0
    /\ \E T \in OpenDays : now = T * 24
    /\ dataview = TRUE
    /\ \E n \in 0 .. MaxStagePages : \E f \in [1 .. n -> StageTemplates] :
          pages = PageList(f)
    /\ manuscriptFolder = << >>
    /\ HostAtRest
    /\ ViewOpened

SpecStage == InitStage /\ [][Next]_vars

(* getWeekNumber called on its own, on every day of fourteen years: a     *)
(* leap year and a common year beginning on each day of the week          *)

ProbeYears == {2024, 2028, 2032, 2036, 2040, 2044, 2048,
               2025, 2026, 2027, 2029, 2030, 2033, 2034}

ProbeDays == UNION {YearStart(y) .. (YearStart(y + 1) - 1) : y \in ProbeYears}

InitWeek ==
    /\ tz \in TZOffsets
    /\ \E T \in OpenDays : now = T * 24 - tz
    /\ dataview = FALSE
    /\ pages = << >>
    /\ manuscriptFolder = << >>
    /\ \E d \in ProbeDays : weekProbe = [arg |-> NewDateLocal(2023, 0, 1 + d), result |-> 0]
    /\ WorkspaceAtRest
    /\ NotifyAtRest
    /\ SideAtRest
    /\ ViewOpened

\* getWeekNumber(date)
CallGetWeekNumber ==
    /\ weekProbe.result = 0
    /\ weekProbe' = [weekProbe EXCEPT !.result = getWeekNumber(weekProbe.arg)]
    /\ UNCHANGED <<pages, dataview, now, tz, pc, currentDate, currentHighestStage,
                   completedWeekStats, todoFutureDates, workingFutureDates,
                   overdueDates, notesByDate, revisionMap, weekRows, manuscriptFolder,
                   openTabs, activeTab, lastClick, timers, lastChange,
                   lastRefresh, sideVars>>

NextWeek == CallGetWeekNumber

SpecWeek == InitWeek /\ [][NextWeek]_vars

(* The view over completed scenes that differ in their word counts         *)

WordValues ==
    { WordsNum(1200), WordsNum(800), WordsNum(500), NoWords,
      WordsStr(<<"1", ",", "5", "0", "0">>),
      WordsStr(<<" ", "2", ",", "0", "5", "0", " ">>) }

WordTemplates(T) ==
    {Note(Str("Scene"), Str("Complete"), DueStr(T - 1), <<0>>, Str("Zero"), w) :
        w \in WordValues}
    \cup {[Note(Str("Scene"), Str("Complete"), DueStr(T - 1), <<0>>, Str("Zero"), NoWords)
              EXCEPT !.WordCount = WordsNum(250)],
          Note(Str("Scene"), Str("Complete"), DueStr(T), <<0>>, Str("Zero"), WordsNum(800)),
          Note(Str("Scene"), Str("Todo"), DueStr(T - 1), <<>>, None, WordsNum(500))}

InitWords ==
    /\ tz = 0
    /\ \E T \in OpenDays :
          /\ now = T * 24
          /\ \E n \in 0 .. MaxWordPages : \E f \in [1 .. n -> WordTemplates(T)] :
                pages = PageList(f)
    /\ dataview = TRUE
    /\ manuscriptFolder = << >>
    /\ HostAtRest
    /\ ViewOpened

SpecWords == InitWords /\ [][Next]_vars

(* The view over completed scenes that differ in how they spell the stage  *)

StageNameValues ==
    { Str("Zero"), Str("zero"), Str("ZERO"), Str("First"), Str("first"), Str("FIRST"),
      Str("AUTHOR"), Str("Editing"), Str("editing"), Str("HOUSE"), Str("house"),
      Str("Press"), Str("press"), Arr(<<"First">>), Arr(<<"House", "Zero">>) }

StageNameTemplates(T) ==
    {Note(Str("Scene"), Str("Complete"), DueStr(T - 1), <<0>>, st, WordsNum(1200)) :
        st \in StageNameValues}

InitNames ==
    /\ tz = 0
    /\ \E T \in OpenDays :
          /\ now = T * 24
          /\ \E n \in 0 .. MaxNamePages : \E f \in [1 .. n -> StageNameTemplates(T)] :
                pages = PageList(f)
    /\ dataview = TRUE
    /\ manuscriptFolder = << >>
    /\ HostAtRest
    /\ ViewOpened

SpecNames == InitNames /\ [][Next]_vars

(* Clicks on the day cells of a rendered calendar                          *)

\* the indexes of the target notes whose path no earlier target has
FirstOfPath(targetNotes) ==
    {k \in 1 .. Len(targetNotes) :
        \A j \in 1 .. (k - 1) : targetNotes[j].path # targetNotes[k].path}

\* step 5, targetNotes.forEach: an openLinkText call in a new tab for each
\* target note whose path was not processed before, open already or not; the
\* call of index 0 activates its tab unless an existing tab was revealed
RECURSIVE OpenCalls(_, _, _)
OpenCalls(targetNotes, index, didActivateTab) ==
    IF index > Len(targetNotes) THEN << >>
    ELSE (IF index \in FirstOfPath(targetNotes)
          THEN << [path |-> targetNotes[index].path,
                   active |-> ~didActivateTab /\ index = 1] >>
          ELSE << >>)
         \o OpenCalls(targetNotes, index + 1, didActivateTab)

\* every note of the day, split day or not
TargetNotesAll(notesForDate, isOverdueDay) == notesForDate

\* step 2: on a split day the notes that are not complete, else all of them
TargetNotes(notesForDate, isOverdueDay) ==
    LET hasCompletedSceneOnDay ==
            \E k \in 1 .. Len(notesForDate) : isNoteComplete(notesForDate[k])
    IN  IF isOverdueDay /\ hasCompletedSceneOnDay
        THEN SelectSeq(notesForDate, LAMBDA note : ~isNoteComplete(note))
        ELSE notesForDate

\* the click listener of a clickable day cell
ClickDay ==
    /\ pc = "idle"
    /\ \E cell \in {c \in AllDayCells : c.clickable} :
          LET notesForDate == MapGetList(notesByDate, cell.date)
              openFiles == {openTabs[k] : k \in 1 .. Len(openTabs)}
              targetNotes == TargetNotes(notesForDate, cell.date \in overdueDates)
              didActivateTab == targetNotes # << >> /\ targetNotes[1].path \in openFiles
              calls == OpenCalls(targetNotes, 1, didActivateTab)
          IN  /\ notesForDate # << >>
              /\ Len(openTabs) + Len(calls) <= MaxTabs
              /\ openTabs' = openTabs \o [k \in 1 .. Len(calls) |-> calls[k].path]
              /\ activeTab' = IF didActivateTab THEN targetNotes[1].path
                               ELSE IF calls # << >> /\ calls[1].active THEN calls[1].path
                               ELSE activeTab
              /\ lastClick' = [date |-> cell.date,
                               wasOpen |-> openFiles,
                               targets |-> [k \in 1 .. Len(targetNotes) |-> targetNotes[k].path],
                               revealed |-> IF didActivateTab THEN {targetNotes[1].path} ELSE {},
                               opened |-> calls]
    /\ UNCHANGED <<pages, dataview, now, tz, pc, currentDate, currentHighestStage,
                   completedWeekStats, todoFutureDates, workingFutureDates,
                   overdueDates, notesByDate, revisionMap, weekRows,
                   manuscriptFolder, weekProbe, timers, lastChange,
                   lastRefresh, sideVars>>

ClickTemplates(T) ==
    { Note(Str("Scene"), Str("Complete"), DueStr(T - 1), <<0>>, Str("AUTHOR"), WordsNum(1200)),
      Note(Str("Scene"), Str("Todo"), DueStr(T - 1), <<>>, None, NoWords),
      Note(Str("Scene"), Str("complete"), DueStr(T - 1), <<>>, None, NoWords),
      Note(Str("Scene"), Str("Working"), DueStr(T + 1), <<>>, None, NoWords),
      Note(Str("Scene"), Str("Complete"), DueStr(T - 2), <<1>>, Str("Zero"), WordsNum(800)) }

InitClick ==
    /\ tz \in TZOffsets
    /\ \E T \in OpenDays :
          /\ now = T * 24 - tz
          /\ \E n \in 0 .. MaxClickPages : \E f \in [1 .. n -> ClickTemplates(T)] :
                /\ pages = PageList(f)
                /\ openTabs \in {<< >>, <<1>>, <<2>>, <<1, 2>>}
    /\ dataview = TRUE
    /\ manuscriptFolder = << >>
    /\ ProbeAtRest
    /\ activeTab = 0
    /\ lastClick = NoClick
    /\ NotifyAtRest
    /\ SideAtRest
    /\ ViewOpened

NextClick == Next \/ ClickDay

SpecClick == InitClick /\ [][NextClick]_vars

(* The view over a vault of several folders, with the folder setting       *)

\* values of the folder setting: empty, blank, a folder, the folder between
\* slashes, the folder followed by a blank
FolderSettings == { << >>, <<" ">>, <<"B">>, <<"/", "B", "/">>, <<"B", " ">> }

\* folders of the vault: the book, a part below it, two folders beside it
NoteFolders == { <<"B">>, <<"B", "/", "p">>, <<"N">>, <<"N", "B">> }

FolderTemplates ==
    {[Note(Str("Scene"), Str("Complete"), DueStr(d), <<0>>, st, WordsNum(1200))
         EXCEPT !.folder = fl] :
        d \in {DaysFromCivil(2024, 11, 30)}, st \in {None, Str("AUTHOR"), Str("PRESS")},
        fl \in NoteFolders}

InitFolder ==
    /\ tz = 0
    /\ \E T \in OpenDays : now = T * 24
    /\ dataview = TRUE
    /\ \E n \in 0 .. MaxFolderPages : \E f \in [1 .. n -> FolderTemplates] :
          pages = PageList(f)
    /\ manuscriptFolder \in FolderSettings
    /\ HostAtRest
    /\ ViewOpened

\* the settings tab's onChange: the new value is stored as typed and
\* saveSettings refreshes the view
ChangeFolder ==
    /\ pc = "idle"
    /\ \E value \in FolderSettings :
          /\ value # manuscriptFolder
          /\ manuscriptFolder' = value
    /\ weekRows' = << >>
    /\ pc' = "header"
    /\ UNCHANGED <<pages, dataview, now, tz, currentDate, currentHighestStage,
                   completedWeekStats, todoFutureDates, workingFutureDates,
                   overdueDates, notesByDate, revisionMap, weekProbe,
                   openTabs, activeTab, lastClick, timers, lastChange,
                   lastRefresh, sideVars>>

NextFolder == Next \/ ChangeFolder

SpecFolder == InitFolder /\ [][NextFolder]_vars

(* The plugin's file notifications: checkFileAndUpdateCalendar and its     *)
(* two timers, over one open calendar view                                 *)

\* the files and folders the vault reports as changed: a note n in one of
\* the folders, or the folder itself
ChangedFiles == [isFile : BOOLEAN, folder : NoteFolders]

\* abstractFile.path
PathOf(file) == IF file.isFile THEN file.folder \o <<"/", "n">> ELSE file.folder

\* s.includes(sub)
Includes(s, sub) ==
    \E i \in 1 .. (Len(s) - Len(sub) + 1) : SubSeq(s, i, i + Len(sub) - 1) = sub

\* isInManuscriptFolder: the setting is empty, or the path contains the
\* setting without its outer slashes
IsInManuscriptFolder(file) ==
    \/ manuscriptFolder = << >>
    \/ Includes(PathOf(file), StripSlashes(manuscriptFolder))

\* view.refreshCalendar(): renderCalendar empties the container and starts
\* over, whatever the view was doing
NotifiedRefresh ==
    /\ weekRows' = << >>
    /\ pc' = "header"
    /\ lastChange' = [lastChange EXCEPT !.pending = FALSE]
    /\ UNCHANGED <<pages, dataview, now, tz, currentDate, currentHighestStage,
                   completedWeekStats, todoFutureDates, workingFutureDates,
                   overdueDates, notesByDate, revisionMap, manuscriptFolder,
                   weekProbe, openTabs, activeTab, lastClick, sideVars>>

\* metadataCache 'changed' or vault 'modify': a folder is ignored, a file in
\* the manuscript folder arms the 100 ms timer
CheckFileAndUpdateCalendar ==
    /\ \E file \in ChangedFiles :
          /\ lastChange' = [isFile |-> file.isFile, folder |-> file.folder,
                            pending |-> TRUE]
          /\ IF file.isFile /\ IsInManuscriptFolder(file)
             THEN /\ timers.first + timers.second < MaxTimers
                  /\ timers' = [timers EXCEPT !.first = @ + 1]
             ELSE timers' = timers
    /\ UNCHANGED <<pages, dataview, now, tz, pc, currentDate, currentHighestStage,
                   completedWeekStats, todoFutureDates, workingFutureDates,
                   overdueDates, notesByDate, revisionMap, weekRows,
                   manuscriptFolder, weekProbe, openTabs, activeTab, lastClick,
                   lastRefresh, sideVars>>

\* the 100 ms callback: with the Dataview index, touch it and arm the 300 ms
\* timer; without it, refresh the view at once
FirstTimeout ==
    /\ timers.first > 0
    /\ IF dataview
       THEN /\ timers' = [first |-> timers.first - 1, second |-> timers.second + 1]
            /\ UNCHANGED <<pages, dataview, now, tz, pc, currentDate,
                           currentHighestStage, completedWeekStats,
                           todoFutureDates, workingFutureDates, overdueDates,
                           notesByDate, revisionMap, weekRows, manuscriptFolder,
                           weekProbe, openTabs, activeTab, lastClick, lastChange,
                           lastRefresh, sideVars>>
       ELSE /\ timers' = [timers EXCEPT !.first = @ - 1]
            /\ lastRefresh' = "direct"
            /\ NotifiedRefresh

\* the 300 ms callback, armed after index.touch(): refresh the view
SecondTimeout ==
    /\ timers.second > 0
    /\ timers' = [timers EXCEPT !.second = @ - 1]
    /\ lastRefresh' = "afterTouch"
    /\ NotifiedRefresh

NotifyTemplates(T) ==
    {[Note(Str("Scene"), Str("Complete"), DueStr(T - 1), <<0>>, Str("AUTHOR"),
           WordsNum(1200)) EXCEPT !.folder = fl] : fl \in NoteFolders}

InitNotify ==
    /\ tz = 0
    /\ \E T \in OpenDays :
          /\ now = T * 24
          /\ \/ dataview = FALSE /\ pages = << >>
             \/ /\ dataview = TRUE
                /\ \E n \in 0 .. MaxNotifyPages :
                      \E f \in [1 .. n -> NotifyTemplates(T)] : pages = PageList(f)
    /\ manuscriptFolder \in FolderSettings
    /\ HostAtRest
    /\ ViewOpened

NextNotify ==
    \/ UpdateMonthDisplay
    \/ RenderCalendarBody
    \/ CheckFileAndUpdateCalendar
    \/ FirstTimeout
    \/ SecondTimeout

\* the host runs a timer's callback once its time has come
SpecNotify ==
    /\ InitNotify
    /\ [][NextNotify]_vars
    /\ WF_vars(FirstTimeout)
    /\ WF_vars(SecondTimeout)

(* The view over notes with and without a usable due date                  *)

DueTemplates(T) ==
    {Note(Str("Scene"), Str(st), due, <<0>>, Str("Zero"), WordsNum(1200)) :
        st \in {"Todo", "Working", "Draft", "Complete"}, due \in {NoDue, BadDue}}
    \cup
    { Note(Str("Scene"), Str("Complete"), DueStr(T - 1), <<0>>, Str("Zero"), WordsNum(1200)),
      Note(Str("Scene"), Str("Draft"), DueStr(T - 1), <<0>>, Str("Zero"), WordsNum(1200)),
      Note(Str("Scene"), Str("Todo"), DueStr(T + 1), <<0>>, Str("Zero"), WordsNum(1200)),
      Note(Str("Scene"), Str("Working"), DueLink(T + 1), <<0>>, Str("Zero"), WordsNum(1200)) }

InitDue ==
    /\ tz \in TZOffsets
    /\ \E T \in OpenDays :
          /\ now = T * 24 + 12 - tz
          /\ \E n \in 0 .. MaxDuePages : \E f \in [1 .. n -> DueTemplates(T)] :
                pages = PageList(f)
    /\ dataview = TRUE
    /\ manuscriptFolder = << >>
    /\ HostAtRest
    /\ ViewOpened

SpecDue == InitDue /\ [][Next]_vars

(* The view through a session: the month buttons, edited notes, Dataview   *)
(* switched off and on.  The clicks come while no render is under way.     *)

\* a date's local month, counted in months
MonthIndex(t) == GetFullYear(t) * 12 + GetMonth(t)

\* the date moved on with setMonth, which keeps the day of the month
ShiftedMonthKeepingDay(date, delta) ==
    NewDateLocal(GetFullYear(date), GetMonth(date) + delta, GetDate(date))

\* changeMonth: new Date(year, month + delta, 1)
ShiftedMonth(date, delta) ==
    NewDateLocal(GetFullYear(date), GetMonth(date) + delta, 1)

\* changeMonth(delta), then refreshCalendar
ChangeMonth(delta) ==
    /\ pc = "idle"
    /\ (expectedMonth + delta) - MonthIndex(now) \in (0 - MaxShift) .. MaxShift
    /\ currentDate' = ShiftedMonth(currentDate, delta)
    /\ expectedMonth' = expectedMonth + delta
    /\ renderedSince' = TRUE
    /\ weekRows' = << >>
    /\ pc' = "header"
    /\ UNCHANGED <<pages, dataview, now, tz, currentHighestStage,
                   completedWeekStats, todoFutureDates, workingFutureDates,
                   overdueDates, notesByDate, revisionMap, manuscriptFolder,
                   weekProbe, openTabs, activeTab, lastClick, timers, lastChange,
                   lastRefresh, queries, renders, contentEl, calendarTable>>

PreviousMonth == ChangeMonth(0 - 1)

NextMonth == ChangeMonth(1)

\* the TODAY button: currentDate = new Date(), updateMonthDisplay, then
\* refreshCalendar
ClickToday ==
    /\ pc = "idle"
    /\ currentDate' = now
    /\ \E accepted \in IF FolderBlank(manuscriptFolder) THEN {TRUE} ELSE BOOLEAN :
          currentHighestStage' =
              IF dataview THEN HighestStage(QueriedPages(accepted))
              ELSE currentHighestStage
    /\ expectedMonth' = MonthIndex(now)
    /\ renderedSince' = TRUE
    /\ weekRows' = << >>
    /\ pc' = "header"
    /\ UNCHANGED <<pages, dataview, now, tz,
                   completedWeekStats, todoFutureDates, workingFutureDates,
                   overdueDates, notesByDate, revisionMap, manuscriptFolder,
                   weekProbe, openTabs, activeTab, lastClick, timers, lastChange,
                   lastRefresh, queries, renders, contentEl, calendarTable>>

SessionDays == {DaysFromCivil(2025, 0, 1), DaysFromCivil(2025, 0, 31)}

SessionTemplates(T) ==
    { Note(Str("Scene"), Str("Complete"), DueStr(T - 1), <<0>>, Str("PRESS"), WordsNum(1200)),
      Note(Str("Scene"), Str("Complete"), DueStr(T - 1), <<0>>, None, WordsNum(1200)),
      Note(Str("Scene"), Str("Todo"), DueStr(T + 1), <<>>, Str("AUTHOR"), NoWords) }

\* notes were edited, added or removed; the file notification refreshes the
\* view
RecordsChanged ==
    /\ pc = "idle"
    /\ \E n \in 0 .. MaxSessionPages :
          \E f \in [1 .. n -> SessionTemplates(LocalDay(now))] :
              /\ PageList(f) # pages
              /\ pages' = PageList(f)
    /\ renderedSince' = TRUE
    /\ weekRows' = << >>
    /\ pc' = "header"
    /\ UNCHANGED <<dataview, now, tz, currentDate, currentHighestStage,
                   completedWeekStats, todoFutureDates, workingFutureDates,
                   overdueDates, notesByDate, revisionMap, manuscriptFolder,
                   weekProbe, openTabs, activeTab, lastClick, timers, lastChange,
                   lastRefresh, expectedMonth, queries, renders, contentEl,
                   calendarTable>>

\* the Dataview plugin is disabled or enabled; nothing tells the view
SourceToggled ==
    /\ pc = "idle"
    /\ dataview' = ~dataview
    /\ renderedSince' = FALSE
    /\ UNCHANGED <<pages, now, tz, pc, currentDate, currentHighestStage,
                   completedWeekStats, todoFutureDates, workingFutureDates,
                   overdueDates, notesByDate, revisionMap, weekRows,
                   manuscriptFolder, weekProbe, openTabs, activeTab, lastClick,
                   timers, lastChange, lastRefresh, expectedMonth, queries,
                   renders, contentEl, calendarTable>>

InitSession ==
    /\ tz \in TZOffsets
    /\ \E T \in SessionDays, h \in LocalHours :
          /\ now = T * 24 + h - tz
          /\ \E n \in 0 .. MaxSessionPages : \E f \in [1 .. n -> SessionTemplates(T)] :
                pages = PageList(f)
    /\ dataview \in BOOLEAN
    /\ manuscriptFolder = << >>
    /\ ProbeAtRest
    /\ WorkspaceAtRest
    /\ NotifyAtRest
    /\ expectedMonth = MonthIndex(now)
    /\ renderedSince = TRUE
    /\ queries = NoQueries
    /\ renders = << >>
    /\ contentEl = << >>
    /\ calendarTable = 0
    /\ ViewOpened

NextSession ==
    \/ UpdateMonthDisplay
    \/ RenderCalendarBody
    \/ PreviousMonth
    \/ NextMonth
    \/ ClickToday
    \/ RecordsChanged
    \/ SourceToggled

SpecSession == InitSession /\ [][NextSession]_vars

(* The view opened in every month of the probe years, no record source     *)

InitGrid ==
    /\ tz \in TZOffsets
    /\ \E y \in ProbeYears, m \in 0 .. 11 : now = NewDateLocal(y, m, 15) + 12
    /\ dataview = FALSE
    /\ pages = << >>
    /\ manuscriptFolder = << >>
    /\ HostAtRest
    /\ ViewOpened

SpecGrid == InitGrid /\ [][Next]_vars

-----------------------------------------------------------------------------
(* Vocabulary of the properties: a note as its frontmatter reads, days as  *)
(* calendar days                                                           *)

\* the values a string-or-list field holds
ValuesOf(x) == {x.v[i] : i \in 1 .. Len(x.v)}

SceneClassed(p) == "Scene" \in ValuesOf(p.Class)
StatusHas(p, s) == s \in ValuesOf(p.Status)
HasDueDay(p) == p.Due.kind \in {"str", "link"}
DueDay(p) == p.Due.day
TodayDay == LocalDay(now)

CompleteScene(p) == SceneClassed(p) /\ StatusHas(p, "Complete") /\ HasDueDay(p)

\* the canonical stage a Publish Stage value names, ZERO when missing
CanonicalStage(p) ==
    IF p.Stage = None THEN "ZERO"
    ELSE LET up == ToUpperCase(IF p.Stage.isArr THEN p.Stage.v[1] ELSE StringOf(p.Stage))
         IN  CASE up = "FIRST" -> "AUTHOR" [] up = "EDITING" -> "HOUSE" [] OTHER -> up

\* a body render has completed with the record source present
Rendered == pc = "idle" /\ dataview

PageIndexes == 1 .. Len(pages)

\* the week key of a calendar day: its year and its week number
OwnWeekKey(d) == <<Civil[d].year, getWeekNumber(d * 24 - tz)>>

SceneCountOf(k) ==
    IF k \in DOMAIN completedWeekStats THEN completedWeekStats[k].sceneCount ELSE 0

RECURSIVE SumSceneCounts(_)
SumSceneCounts(keys) ==
    IF keys = {} THEN 0
    ELSE LET k == CHOOSE x \in keys : TRUE
         IN  SceneCountOf(k) + SumSceneCounts(keys \ {k})

TotalSceneCount == SumSceneCounts(DOMAIN completedWeekStats)

AllCells == {weekRows[r].cells[c] : r \in 1 .. Len(weekRows), c \in 1 .. 7}

-----------------------------------------------------------------------------
(* C1  Week aggregation counts each completed scene exactly once           *)

\* the records C1 speaks of: Scene, Complete, due on or before today
C1_Qualifies(p) == CompleteScene(p) /\ DueDay(p) <= TodayDay

\* C1: after a render every week bucket's sceneCount is the number of
\* records with class Scene, status Complete and a due date on or before
\* today whose own due date has that bucket's year and week number; so each
\* such record adds exactly 1 to exactly one bucket and no other record adds
\* anything.
C1_EachCompletedSceneCountedOnce ==
    Rendered =>
        \A k \in DOMAIN completedWeekStats
                 \cup {OwnWeekKey(DueDay(pages[i])) : i \in {j \in PageIndexes : C1_Qualifies(pages[j])}} :
            SceneCountOf(k) =
                Cardinality({i \in PageIndexes :
                                C1_Qualifies(pages[i]) /\ OwnWeekKey(DueDay(pages[i])) = k})

-----------------------------------------------------------------------------
(* C2  Which completed scenes the weekly ratio counts                      *)

C2_MatchesHighest(p) ==
    IF currentHighestStage = "ZERO"
    THEN CanonicalStage(p) = "ZERO" /\ RevisionOf(p) = 0
    ELSE CanonicalStage(p) = currentHighestStage

-----------------------------------------------------------------------------
(* C3  Week buckets and calendar weeks                                     *)

\* the due days of the completed scenes the render accumulated
AccumulatedDays == DOMAIN revisionMap

\* C3: the buckets correspond one-to-one to the Sunday-to-Saturday weeks of
\* the accumulated scenes, and the ratio of every week row counts exactly the
\* accumulated scenes whose due date is one of the row's seven days.
C3_BucketsAreCalendarWeeks ==
    Rendered =>
        /\ Cardinality(DOMAIN completedWeekStats)
              = Cardinality({d \div 7 : d \in AccumulatedDays})
        /\ \A r \in 1 .. Len(weekRows) :
              weekRows[r].numerator =
                  Cardinality({<<d, n>> \in AccumulatedDays \X (1 .. MaxPages + 1) :
                                  /\ \E c \in 1 .. 7 : weekRows[r].cells[c].date = d
                                  /\ n <= Len(revisionMap[d])})

-----------------------------------------------------------------------------
(* Markers of a day cell and the top-level state each belongs to           *)

IsOverdueSplit(d) == d.cls = "split-revision" /\ d.parts[2] = "overdue"
IsRevisionSplit(d) == d.cls = "split-revision" /\ d.parts[2] = "has-revision-part"
IsStageMarker(d) == d.cls \in {"stage-zero", "stage-author", "stage-house", "stage-press"}

TopState(d) ==
    CASE d.cls = "overdue" \/ IsOverdueSplit(d) -> "overdue"
      [] d.cls = "working" -> "working"
      [] d.cls = "future-todo-dot" -> "future-todo"
      [] IsStageMarker(d) \/ IsRevisionSplit(d) -> "stage"
      [] OTHER -> "unknown"

DotsOf(cell) == {cell.dots[i] : i \in 1 .. Len(cell.dots)}

\* a status value that reads "complete" whatever its case and padding
ReadsComplete(p) == \E st \in ValuesOf(p.Status) : TrimLowerCase(st) = "complete"

\* the completed Scene records due on day d
CompletedOn(d) == {i \in PageIndexes : CompleteScene(pages[i]) /\ DueDay(pages[i]) = d}

-----------------------------------------------------------------------------
(* C4  Overdue and completed on one date: the split state                  *)

-----------------------------------------------------------------------------
(* C5  One top-level state per day cell, by priority                       *)

\* C5: the markers of a day cell all belong to one top-level state, the first
\* that applies of overdue (plain or split), working, future-todo and
\* completed-stage; the first three show a single marker, the stage state at
\* most one marker per stage.
C5_OneTopLevelStatePerCell ==
    Rendered =>
        \A cell \in AllCells :
            LET want == IF cell.date \in overdueDates THEN "overdue"
                        ELSE IF cell.date \in workingFutureDates THEN "working"
                        ELSE IF cell.date \in todoFutureDates THEN "future-todo"
                        ELSE "stage"
            IN  /\ \A d \in DotsOf(cell) : TopState(d) = want
                /\ want # "stage" => Len(cell.dots) = 1
                /\ Cardinality(DotsOf(cell)) = Len(cell.dots)
                /\ \A i, j \in 1 .. Len(cell.dots) :
                      i # j => cell.dots[i].cls # cell.dots[j].cls

\* a rendered cell for which states compete: its date is in the overdue set
\* and also in a future-pending set, and it shows the overdue marker alone
C5_CompetingStatesShown ==
    /\ Rendered
    /\ \E cell \in AllCells :
          /\ cell.date \in overdueDates
          /\ cell.date \in todoFutureDates \cup workingFutureDates
          /\ cell.dots = << Dot("overdue") >>

-----------------------------------------------------------------------------
(* C6  The split zero/revised marker                                       *)

\* the cell shows the completed-stage state
InStageState(cell) ==
    /\ cell.date \notin overdueDates \cup workingFutureDates \cup todoFutureDates
    /\ cell.date \in DOMAIN revisionMap

\* C6: in the completed-stage state the split zero/revised marker is shown,
\* in place of the ZERO marker, exactly when the completed ZERO records of the
\* date include one with revision 0 and one with revision > 0.
C6_SplitRevisionOnlyFromZeroStage ==
    Rendered =>
        \A cell \in AllCells :
            InStageState(cell) =>
                LET zeros == {i \in CompletedOn(cell.date) : CanonicalStage(pages[i]) = "ZERO"}
                    both == /\ \E i \in zeros : RevisionOf(pages[i]) = 0
                            /\ \E i \in zeros : RevisionOf(pages[i]) > 0
                IN  /\ (\E d \in DotsOf(cell) : IsRevisionSplit(d)) <=> both
                    /\ both => ~\E d \in DotsOf(cell) : d.cls = "stage-zero"

-----------------------------------------------------------------------------
(* C7  Overdue classification                                              *)

C7_IsOverdue(p) ==
    /\ SceneClassed(p) /\ ~StatusHas(p, "Complete")
    /\ HasDueDay(p) /\ DueDay(p) < TodayDay

ListedUnder(p, d) ==
    /\ d \in DOMAIN notesByDate
    /\ \E n \in 1 .. Len(notesByDate[d]) : notesByDate[d][n].path = p.path

\* C7: the overdue set holds exactly the due dates of the records with class
\* Scene, a status other than Complete (a missing status included) and a due
\* date strictly before today, and each such record is indexed under its date.
C7_OverdueExactlyNotCompletePastScenes ==
    Rendered =>
        /\ overdueDates = {DueDay(pages[i]) : i \in {j \in PageIndexes : C7_IsOverdue(pages[j])}}
        /\ \A i \in PageIndexes :
              C7_IsOverdue(pages[i]) => ListedUnder(pages[i], DueDay(pages[i]))

-----------------------------------------------------------------------------
(* C8  Future-pending classification                                       *)

C8_IsPending(p) ==
    /\ SceneClassed(p) /\ (StatusHas(p, "Todo") \/ StatusHas(p, "Working"))
    /\ HasDueDay(p) /\ DueDay(p) >= TodayDay

\* C8: the future-pending dates are exactly the due dates of the records with
\* class Scene, status Todo or Working and a due date on or after today; a
\* date is tagged Working by such a record whose status has Working, and Todo
\* by the others.
C8_FuturePendingExactly ==
    Rendered =>
        LET pending == {i \in PageIndexes : C8_IsPending(pages[i])}
        IN  /\ workingFutureDates =
                  {DueDay(pages[i]) : i \in {j \in pending : StatusHas(pages[j], "Working")}}
            /\ todoFutureDates =
                  {DueDay(pages[i]) : i \in {j \in pending : ~StatusHas(pages[j], "Working")}}

-----------------------------------------------------------------------------
(* C9  Past, today and future by calendar day                              *)

\* C9: whatever the hour and the host's offset: when no record is due before
\* today nothing is overdue; when every record is due before today nothing is
\* future-pending; a Todo or Working scene due today makes a date
\* future-pending; and every completed scene due today is counted.
C9_TodayByCalendarDay ==
    Rendered =>
        /\ (\A i \in PageIndexes : HasDueDay(pages[i]) => DueDay(pages[i]) >= TodayDay)
              => overdueDates = {}
        /\ (\A i \in PageIndexes : HasDueDay(pages[i]) => DueDay(pages[i]) < TodayDay)
              => todoFutureDates \cup workingFutureDates = {}
        /\ (\E i \in PageIndexes : C8_IsPending(pages[i]) /\ DueDay(pages[i]) = TodayDay)
              => todoFutureDates \cup workingFutureDates # {}
        /\ TotalSceneCount >=
              Cardinality({i \in PageIndexes : CompleteScene(pages[i]) /\ DueDay(pages[i]) = TodayDay})

-----------------------------------------------------------------------------
(* C10  The highest-stage resolver                                         *)

\* the rank of the stage a record carries: its Publish Stage read as text,
\* whatever its case, legacy names included; no stage name ranks as ZERO
C10_RankOf(p) ==
    LET name == ToUpperCase(StringOf(p.Stage))
    IN  CASE name \in {"PRESS"} -> 3
          [] name \in {"HOUSE", "EDITING"} -> 2
          [] name \in {"AUTHOR", "FIRST"} -> 1
          [] OTHER -> 0

C10_Carriers == {i \in PageIndexes : pages[i].Stage # None}

-----------------------------------------------------------------------------
(* C11  The manuscript's stage and the folder setting                      *)

\* C11: whatever the folder setting, once the resolver has run the
\* manuscript's stage is the highest stage carried by any note of the vault,
\* so two renders over the same vault that differ in the folder setting
\* compute the same stage.
C11_HighestStageIgnoresFolder ==
    (pc # "header" /\ dataview) =>
        \A i \in C10_Carriers :
            StageRankOrZero(currentHighestStage) >= C10_RankOf(pages[i])

-----------------------------------------------------------------------------
(* C12  The ratio of a week row                                            *)

\* the word count a record states: Words, or Word Count when Words is missing
C12_StatedWords(p) == IF p.Words.kind # "none" THEN p.Words ELSE p.WordCount

\* its value: a number as it is, a text by its digits (commas and blanks
\* do not count), nothing as 0
C12_Parsed(p) ==
    LET w == C12_StatedWords(p)
    IN  CASE w.kind = "num" -> w.n
          [] w.kind = "str" -> DigitPrefix(SelectSeq(w.s, LAMBDA c : c \in Digits), 0)
          [] OTHER -> 0

\* the records accumulated into the bucket of key k
C12_Contributors(k) ==
    {i \in PageIndexes :
        /\ CompleteScene(pages[i]) /\ IsUpToToday(pages[i], TodayAfterFilters(pages, now))
        /\ WeekYearKey(dueDateOf(pages[i])) = k}

RECURSIVE C12_SumParsed(_)
C12_SumParsed(is) ==
    IF is = {} THEN 0
    ELSE LET i == CHOOSE x \in is : TRUE
         IN  C12_Parsed(pages[i]) + C12_SumParsed(is \ {i})

\* C12: every week row whose bucket has a contributing record shows a ratio,
\* its numerator the number of contributing records and its denominator the
\* sum of their parsed word counts divided by 100, rounded down.
C12_RatioIsCountOverHundredsOfWords ==
    Rendered =>
        \A r \in 1 .. Len(weekRows) :
            LET contributors == C12_Contributors(weekRows[r].weekYear)
            IN  contributors # {} =>
                    /\ weekRows[r].hasRatio
                    /\ weekRows[r].numerator = Cardinality(contributors)
                    /\ weekRows[r].denominator = C12_SumParsed(contributors) \div 100

\* a row showing 3 / 25 for word counts 1200, 800 and 500
C12_ThreeOverTwentyFive ==
    /\ Rendered
    /\ Len(pages) = 3
    /\ {pages[i].Words : i \in 1 .. 3} = {WordsNum(1200), WordsNum(800), WordsNum(500)}
    /\ \E r \in 1 .. Len(weekRows) :
          /\ Cardinality(C12_Contributors(weekRows[r].weekYear)) = 3
          /\ weekRows[r].numerator = 3 /\ weekRows[r].denominator = 25

-----------------------------------------------------------------------------
(* C13  Week numbers                                                       *)

\* the local calendar day of a probe's argument and the days of its year
\* that follow it
C13_Day == LocalDay(weekProbe.arg)
C13_LaterDaysOfYear ==
    {d \in C13_Day .. (C13_Day + 366) :
        d \in ProbeDays /\ Civil[d].year = Civil[C13_Day].year}

\* day d lies in the Sunday-to-Saturday week that holds January 1 of the
\* year after its own
C13_InNextYearsFirstWeek(d) ==
    LET sunday == d - (d % 7)
        newYear == YearStart(Civil[d].year + 1)
    IN  sunday < newYear /\ newYear <= sunday + 6

\* C13: the week number of every date lies in 1 .. 53, and no later date of
\* the same year has a smaller week number unless that later date lies in
\* the week of the following January 1, which is numbered 1.
C13_WeekNumberInRangeAndMonotone ==
    weekProbe.result # 0 =>
        /\ weekProbe.result \in 1 .. 53
        /\ \A d \in C13_LaterDaysOfYear :
              LET later == getWeekNumber(NewDateLocal(2023, 0, 1 + d))
              IN  IF C13_InNextYearsFirstWeek(d) THEN later = 1
                  ELSE weekProbe.result <= later /\ later <= 53

\* a date of week 53 followed in its year by a date of the next year's week 1
C13_Week53BeforeWeek1 ==
    /\ weekProbe.result = 53
    /\ \E d \in C13_LaterDaysOfYear : C13_InNextYearsFirstWeek(d)

-----------------------------------------------------------------------------
(* C14  A click reveals open notes and opens the others                    *)

C14_OpenedPaths == {lastClick.opened[k].path : k \in 1 .. Len(lastClick.opened)}
C14_Targets == {lastClick.targets[k] : k \in 1 .. Len(lastClick.targets)}

\* C14: after a click, every target note that was open in a tab has been
\* revealed and got no further tab; tabs were opened for the target notes
\* that were not open and only for them; and a new tab was activated only if
\* it was the first one opened and no tab was revealed.
C14_OpenNotesRevealedNotDuplicated ==
    lastClick # NoClick =>
        /\ \A t \in C14_Targets \cap lastClick.wasOpen :
              t \in lastClick.revealed /\ t \notin C14_OpenedPaths
        /\ C14_OpenedPaths = C14_Targets \ lastClick.wasOpen
        /\ \A k \in 1 .. Len(lastClick.opened) :
              lastClick.opened[k].active => (k = 1 /\ lastClick.revealed = {})

-----------------------------------------------------------------------------
(* C15  The notes a click targets                                          *)

\* the paths of the notes of a list, in order
C15_Paths(notes) == [k \in 1 .. Len(notes) |-> notes[k].path]

\* C15: a click on a cell whose date is in the overdue set and has a note
\* that reads complete targets exactly the notes of the date that do not
\* read complete; a click on any other cell targets all the notes indexed
\* for its date.
C15_SplitClickTargetsOverdueOnly ==
    lastClick # NoClick =>
        LET notes == MapGetList(notesByDate, lastClick.date)
            split == /\ lastClick.date \in overdueDates
                     /\ \E k \in 1 .. Len(notes) : ReadsComplete(notes[k])
        IN  lastClick.targets =
                IF split
                THEN C15_Paths(SelectSeq(notes, LAMBDA n : ~ReadsComplete(n)))
                ELSE C15_Paths(notes)

\* a click on a split cell that holds an overdue Todo note and a completed
\* scene has targeted the Todo note alone
C15_SplitCellClicked ==
    /\ lastClick # NoClick
    /\ lastClick.date \in overdueDates
    /\ Len(MapGetList(notesByDate, lastClick.date)) = 2
    /\ Len(lastClick.targets) = 1
    /\ \E i \in PageIndexes :
          /\ pages[i].path = lastClick.targets[1]
          /\ StatusHas(pages[i], "Todo")

-----------------------------------------------------------------------------
(* C16  Completed scenes due after today are not shown                     *)

\* the records that read complete, are Scenes and are due on or before today
C16_ShownCompleted ==
    {i \in PageIndexes :
        /\ SceneClassed(pages[i]) /\ ReadsComplete(pages[i])
        /\ HasDueDay(pages[i]) /\ DueDay(pages[i]) <= TodayDay}

\* the stage classes a marker shows
C16_StageClassesOf(d) ==
    IF IsStageMarker(d) THEN {d.cls}
    ELSE IF d.cls = "split-revision" THEN {d.parts[1]}
    ELSE {}

\* C16: a Scene with status Complete due after today is shown nowhere: the
\* week buckets count no more than the completed scenes due on or before
\* today, the completed scenes accumulated per date are due on or before
\* today, and every stage colour shown in a day cell is the stage of a
\* completed scene due on or before today.
C16_FutureCompletedNotShown ==
    Rendered =>
        /\ TotalSceneCount <= Cardinality(C16_ShownCompleted)
        /\ \A d \in DOMAIN revisionMap : d <= TodayDay
        /\ \A cell \in AllCells : \A dot \in DotsOf(cell) :
              C16_StageClassesOf(dot) \subseteq
                  {StageClass(CanonicalStage(pages[i])) : i \in C16_ShownCompleted}

\* a rendered calendar whose only note is a completed scene due tomorrow
C16_FutureCompletedRendered ==
    /\ Rendered
    /\ Len(pages) = 1
    /\ CompleteScene(pages[1]) /\ DueDay(pages[1]) = TodayDay + 1
    /\ completedWeekStats = EmptyMap
    /\ \A cell \in AllCells : cell.dots = << >>

-----------------------------------------------------------------------------
(* C17  Classified records are indexed under their due date                *)

\* the paths of the notes of a list
C17_PathsIn(notes) == {notes[k].path : k \in 1 .. Len(notes)}

\* the records the render classified as future-pending, overdue or completed
C17_Classified ==
    C17_PathsIn(futurePages(pages, now))
    \cup C17_PathsIn(overduePages(pages, now))
    \cup C17_PathsIn(processedScenes(pages, TodayAfterFilters(pages, now)))

\* C17: every record the render classified as future-pending, overdue or
\* completed is listed in the date-to-records mapping under its own due date.
C17_ClassifiedIndexedUnderDueDate ==
    Rendered =>
        \A i \in PageIndexes :
            pages[i].path \in C17_Classified =>
                ListedUnder(pages[i], DueDay(pages[i]))

-----------------------------------------------------------------------------
(* C18  The Due date places the scene on the calendar                      *)

\* C18: whatever the host's offset, a day cell carries markers exactly when
\* a record the render classified (future, overdue or completed) is due on
\* the calendar date the cell displays, and every completed scene the render
\* accumulated is counted in the bucket of the week of its due date.
C18_ShownOnItsDueDate ==
    Rendered =>
        /\ \A cell \in AllCells :
              cell.clickable <=>
                  \E i \in PageIndexes :
                      /\ pages[i].path \in C17_Classified
                      /\ DueDay(pages[i]) = cell.day
        /\ \A i \in PageIndexes :
              pages[i].path \in C17_PathsIn(processedScenes(pages, TodayAfterFilters(pages, now)))
                  => SceneCountOf(OwnWeekKey(DueDay(pages[i]))) >= 1

-----------------------------------------------------------------------------
(* C19  One normalization of stage names                                   *)

\* C19: the resolver and the per-record classifier give every Publish Stage
\* value the same canonical stage, one of the four: for every record the two
\* normalizations agree, and when a single completed scene has been rendered
\* the stage recorded for its date is the stage the resolver found.
C19_ResolverAndClassifierAgree ==
    Rendered =>
        /\ \A i \in C10_Carriers :
              /\ ResolverStage(pages[i].Stage) = BodyStage(pages[i].Stage)
              /\ BodyStage(pages[i].Stage) \in {"ZERO", "AUTHOR", "HOUSE", "PRESS"}
        /\ (Len(pages) = 1 /\ DueDay(pages[1]) \in DOMAIN revisionMap) =>
              revisionMap[DueDay(pages[1])][1].publishStage = currentHighestStage

(* C20: every notification of a change to a file within the configured     *)
(* folder scope (to any file when the scope is empty) is eventually        *)
(* followed by a refresh of the open calendar view, and with the Dataview  *)
(* index available the refresh follows the touch of the index.             *)

\* the folder scope as the view's own query reads the setting
C20_InScope ==
    /\ lastChange.isFile
    /\ \/ FolderBlank(manuscriptFolder)
       \/ InFolderSource(lastChange, CleanFolderPath(manuscriptFolder))

C20_NotificationLeadsToRefresh ==
    /\ (lastChange.pending /\ C20_InScope) ~> ~lastChange.pending
    /\ [](dataview => lastRefresh # "direct")

(* C22: a record whose due date is missing or unparsable is in none of the *)
(* date-keyed structures, and the other records of the same render are     *)
(* classified as if it were not there.                                     *)

C22_Dated == SelectSeq(pages, HasDueDay)

C22_ListedPaths ==
    UNION { {notesByDate[k][i].path : i \in 1 .. Len(notesByDate[k])} :
                k \in DOMAIN notesByDate }

C22_UndatedRecordsSkipped ==
    Rendered =>
        /\ \A i \in PageIndexes : ~HasDueDay(pages[i]) => i \notin C22_ListedPaths
        /\ todoFutureDates = BodyTodoFutureDates(C22_Dated, now)
        /\ workingFutureDates = BodyWorkingFutureDates(C22_Dated, now)
        /\ overdueDates = BodyOverdueDates(C22_Dated, now)
        /\ notesByDate = BodyNotesByDate(C22_Dated, now)
        /\ revisionMap = BodyRevisionMap(C22_Dated, now)
        /\ completedWeekStats = BodyWeekStats(C22_Dated, now, currentHighestStage)

\* a record without a usable date before a dated one that is classified
C22_UndatedBesideClassified ==
    /\ Rendered
    /\ Len(pages) = 2
    /\ pages[1].Due = BadDue
    /\ HasDueDay(pages[2])
    /\ 2 \in C22_ListedPaths

(* C27: the seven days of a Sunday-to-Saturday week get one week number    *)
(* from getWeekNumber, and the days of a week that holds a January 1, on   *)
(* either side of it, get the number 1.                                    *)

C27_Sunday == LocalDay(weekProbe.arg) - (LocalDay(weekProbe.arg) % 7)

\* the days of the probe's week the calendar of the model knows
C27_WeekDays == {d \in C27_Sunday .. (C27_Sunday + 6) : d \in CalendarDays}

C27_SpansNewYear ==
    \E d \in C27_WeekDays :
        Civil[d].month = 0 /\ Civil[d].date = 1 /\ d # C27_Sunday

C27_OneNumberPerWeek ==
    weekProbe.result # 0 =>
        /\ \A d \in C27_WeekDays :
              getWeekNumber(NewDateLocal(2023, 0, 1 + d)) = weekProbe.result
        /\ C27_SpansNewYear => weekProbe.result = 1

\* a December day numbered in a week that ends in January
C27_DecemberDayOfWeekOne ==
    /\ weekProbe.result # 0
    /\ C27_SpansNewYear
    /\ Civil[LocalDay(weekProbe.arg)].month = 11
    /\ Cardinality(C27_WeekDays) = 7

(* C29: no record is both classified Overdue and read as complete by the   *)
(* split-state test and the click; a cell is in split state only if its    *)
(* date has a record classified Overdue and another classified Completed;  *)
(* a click on a split-state cell targets at least one note.                *)

C29_OverdueOn(d) ==
    LET ps == overduePages(pages, now)
    IN  {ps[k].path : k \in {j \in 1 .. Len(ps) : PlainDateKey(ps[j]) = d}}

C29_CompletedOn(d) ==
    LET ps == processedScenes(pages, TodayAfterFilters(pages, now))
    IN  {ps[k].path : k \in {j \in 1 .. Len(ps) : PlainDateKey(ps[j]) = d}}

C29_IsSplit(cell) == \E d \in DotsOf(cell) : IsOverdueSplit(d)

C29_SplitNeedsTwoRecords ==
    Rendered =>
        /\ \A cell \in AllCells :
              /\ \A i \in C29_OverdueOn(cell.date) : ~isNoteComplete(pages[i])
              /\ C29_IsSplit(cell) =>
                    \E i \in C29_OverdueOn(cell.date), j \in C29_CompletedOn(cell.date) :
                        i # j
        /\ \A cell \in AllCells :
              (lastClick.date = cell.date /\ C29_IsSplit(cell)) =>
                  lastClick.targets # << >>

(* C25: file notifications are debounced: notifications that arrive within *)
(* the delay window cause one refresh of the open view, not one each.      *)
(* Every callback that waits ends in one refresh of the view, so at most   *)
(* one callback waits at any time.                                         *)

C25_NotificationsDebounced == timers.first + timers.second <= 1

(* C30: for every displayed month the grid has 4 to 6 week rows of seven   *)
(* consecutive days, from the Sunday on or before the 1st to the Saturday  *)
(* on or after the last day of the month, and every day of the month is in *)
(* exactly one cell.                                                       *)

C30_First == DaysFromCivil(GetFullYear(currentDate), GetMonth(currentDate), 1)
C30_Last == DaysFromCivil(GetFullYear(currentDate), GetMonth(currentDate) + 1, 0)
C30_Sunday == C30_First - (C30_First % 7)
C30_Saturday == C30_Last + (6 - (C30_Last % 7))

C30_GridCoversMonth ==
    pc = "idle" =>
        /\ Len(weekRows) \in 4 .. 6
        /\ \A r \in 1 .. Len(weekRows) : \A c \in 1 .. 7 :
              weekRows[r].cells[c].day = C30_Sunday + 7 * (r - 1) + (c - 1)
        /\ weekRows[Len(weekRows)].cells[7].day = C30_Saturday
        /\ \A d \in C30_First .. C30_Last :
              Cardinality({rc \in (1 .. Len(weekRows)) \X (1 .. 7) :
                              weekRows[rc[1]].cells[rc[2]].day = d}) = 1

\* a February of four rows
C30_FourRowMonth == pc = "idle" /\ Len(weekRows) = 4 /\ C30_Last - C30_First = 27

(* C28: after any sequence of previous, next and TODAY clicks the month    *)
(* displayed is the month of the last TODAY click (or of the opening)      *)
(* shifted by one month per previous / next click since, whatever the day  *)
(* of the month of the opening or of the TODAY click; next followed by     *)
(* previous gives the same month again.                                    *)

C28_MonthOfDay(d) == Civil[d].year * 12 + Civil[d].month

C28_MonthFollowsClicks ==
    /\ MonthIndex(currentDate) = expectedMonth
    /\ pc = "idle" =>
          /\ \E cell \in AllCells : ~cell.otherMonth
          /\ \A cell \in AllCells :
                cell.otherMonth <=> C28_MonthOfDay(cell.day) # expectedMonth

\* opened on the 31st, next clicked once, the month after shown
C28_NextFromThirtyFirst ==
    /\ pc = "idle"
    /\ GetDate(now) = 31
    /\ expectedMonth = MonthIndex(now) + 1
    /\ weekRows # << >>


-----------------------------------------------------------------------------
(* C24 *)

\* what a view opened now computes for the stage indicator
C24_FreshStage ==
    IF dataview THEN HighestStage(QueriedPages(TRUE)) ELSE "ZERO"

\* the rows a view opened now would build for the displayed month
C24_FreshRows ==
    LET today == now
        pgs == QueriedPages(TRUE)
        stats == BodyWeekStats(pgs, today, C24_FreshStage)
        rm == BodyRevisionMap(pgs, today)
        nbd == BodyNotesByDate(pgs, today)
        todo == BodyTodoFutureDates(pgs, today)
        working == BodyWorkingFutureDates(pgs, today)
        overdue == BodyOverdueDates(pgs, today)
    IN  BuildRows(firstDisplayDayOf(currentDate), lastDayOf(currentDate),
                  TodayAfterFilters(pgs, today), GetMonth(currentDate),
                  stats, C24_FreshStage, rm, nbd, todo, working, overdue)

\* C24: once a render that began after the last change of the record source
\* has completed, the week buckets, the day cells and the highest stage are
\* those a freshly opened view computes from the same records, and the
\* highest stage is ZERO whenever the record source is unavailable or no
\* record carries a stage
C24_RenderEqualsFreshView ==
    (pc = "idle" /\ renderedSince) =>
        /\ currentHighestStage = C24_FreshStage
        /\ completedWeekStats =
               BodyWeekStats(QueriedPages(TRUE), now, C24_FreshStage)
        /\ weekRows = C24_FreshRows
        /\ (~dataview => currentHighestStage = "ZERO")


-----------------------------------------------------------------------------
(* C21 *)

\* the days of the displayed month
C21_MonthDays ==
    LocalDay(NewDateLocal(GetFullYear(currentDate), GetMonth(currentDate), 1))
        .. LocalDay(lastDayOf(currentDate))

\* C21: a render made while the record source is unavailable, or while it
\* holds no record, completes with every classification set and every week
\* bucket empty, and its table shows every day of the month, none of them
\* with an indicator and none of them clickable
C21_EmptySourceRendersBareGrid ==
    (pc = "idle" /\ renderedSince /\ (~dataview \/ pages = << >>)) =>
        /\ completedWeekStats = EmptyMap
        /\ todoFutureDates = {}
        /\ workingFutureDates = {}
        /\ overdueDates = {}
        /\ notesByDate = EmptyMap
        /\ revisionMap = EmptyMap
        /\ weekRows # << >>
        /\ \A r \in 1 .. Len(weekRows) : ~weekRows[r].hasRatio
        /\ \A cell \in AllCells :
              /\ cell.dots = << >>
              /\ ~cell.clickable
              /\ ~cell.futureTodo
              /\ ~cell.futureWorking
        /\ \A d \in C21_MonthDays :
              \E cell \in AllCells : cell.day = d /\ ~cell.otherMonth

\* a render completed without Dataview while the vault holds notes
C21_RenderedWithoutSource ==
    /\ pc = "idle"
    /\ renderedSince
    /\ ~dataview
    /\ pages # << >>
    /\ weekRows # << >>


-----------------------------------------------------------------------------
(* The queries of a body render taken one at a time, with a folder set:    *)
(* index.touch(), the three folder forms, all pages, and all pages again   *)
(* from the outer catch.  Each awaited call either returns or throws.      *)

QueryForms == <<"folder", "quoted", "bare", "all">>

\* what a query of the form returns when it does not throw
QueryResult(form) ==
    IF form = "all" THEN pages
    ELSE PagesOfFolder(pages, CleanFolderPath(manuscriptFolder))

\* a render that asks for all pages at once
NextQueryFormAllPages == "all"

\* the form the render issues next
NextQueryForm ==
    IF queries.caught THEN "all" ELSE QueryForms[Len(queries.attempts) + 1]

\* await dataviewApi.index.touch(), inside the outer try: a throw goes to
\* the outer catch
TouchIndex ==
    /\ pc = "body"
    /\ dataview
    /\ ~FolderBlank(manuscriptFolder)
    /\ queries.touched = "no"
    /\ \E ok \in BOOLEAN :
          queries' = [queries EXCEPT !.touched = IF ok THEN "ok" ELSE "failed",
                                     !.caught = ~ok]
    /\ UNCHANGED <<pages, dataview, now, tz, pc, currentDate, currentHighestStage,
                   completedWeekStats, todoFutureDates, workingFutureDates,
                   overdueDates, notesByDate, revisionMap, weekRows,
                   manuscriptFolder, weekProbe, openTabs, activeTab, lastClick,
                   timers, lastChange, lastRefresh, expectedMonth, renderedSince,
                   renders, contentEl, calendarTable>>

\* one await dataviewApi.pages(...): a folder form that throws leaves
\* querySuccess false, all pages that throws goes to the outer catch, and
\* the query of the outer catch that throws leaves pages = []
AttemptQuery ==
    /\ pc = "body"
    /\ queries.touched # "no"
    /\ ~queries.done
    /\ \E ok \in BOOLEAN :
          LET form == NextQueryForm
              tried == Append(queries.attempts, [form |-> form, ok |-> ok])
          IN  queries' =
                  IF ok
                  THEN [queries EXCEPT !.attempts = tried, !.done = TRUE,
                                       !.used = QueryResult(form)]
                  ELSE IF queries.caught
                  THEN [queries EXCEPT !.attempts = tried, !.done = TRUE,
                                       !.used = << >>]
                  ELSE [queries EXCEPT !.attempts = tried,
                                       !.caught = (form = "all")]
    /\ UNCHANGED <<pages, dataview, now, tz, pc, currentDate, currentHighestStage,
                   completedWeekStats, todoFutureDates, workingFutureDates,
                   overdueDates, notesByDate, revisionMap, weekRows,
                   manuscriptFolder, weekProbe, openTabs, activeTab, lastClick,
                   timers, lastChange, lastRefresh, expectedMonth, renderedSince,
                   renders, contentEl, calendarTable>>

\* the rest of renderCalendarBody, from the pages the queries left
RenderQueriedBody ==
    /\ pc = "body"
    /\ queries.done
    /\ RenderBodyWith(queries.used)
    /\ pc' = "idle"
    /\ UNCHANGED <<pages, dataview, now, tz, currentDate, currentHighestStage>>
    /\ UNCHANGED hostVars

QueryTemplates(T) ==
    {[Note(Str("Scene"), Str("Complete"), DueStr(T - 1), <<0>>, Str("AUTHOR"), WordsNum(1200))
         EXCEPT !.folder = fl] : fl \in NoteFolders}

InitQuery ==
    /\ tz \in TZOffsets
    /\ \E T \in OpenDays :
          /\ now = T * 24 + 12 - tz
          /\ \E n \in 0 .. MaxQueryPages : \E f \in [1 .. n -> QueryTemplates(T)] :
                pages = PageList(f)
    /\ dataview = TRUE
    /\ manuscriptFolder \in {fs \in FolderSettings : ~FolderBlank(fs)}
    /\ HostAtRest
    /\ ViewOpened

NextQuery ==
    \/ UpdateMonthDisplay
    \/ TouchIndex
    \/ AttemptQuery
    \/ RenderQueriedBody

SpecQuery == InitQuery /\ [][NextQuery]_vars


-----------------------------------------------------------------------------
(* C26 *)

C26_Rank(form) == CHOOSE k \in 1 .. 4 : QueryForms[k] = form

\* the attempts so far follow the order of the forms: every attempt comes
\* after failed attempts only, and every form before its own was tried
C26_InOrder ==
    \A k \in 1 .. Len(queries.attempts) :
        /\ \A j \in 1 .. (k - 1) :
              /\ ~queries.attempts[j].ok
              /\ C26_Rank(queries.attempts[j].form) <= C26_Rank(queries.attempts[k].form)
        /\ \A r \in 1 .. (C26_Rank(queries.attempts[k].form) - 1) :
              \E j \in 1 .. (k - 1) : queries.attempts[j].form = QueryForms[r]

\* the pages the render goes on with are those of the attempt that
\* succeeded, and none when no attempt did
C26_FirstSuccessUsed ==
    queries.done =>
        LET n == Len(queries.attempts)
        IN  /\ n >= 1
            /\ queries.used = IF queries.attempts[n].ok
                              THEN QueryResult(queries.attempts[n].form)
                              ELSE << >>
            /\ ~queries.attempts[n].ok =>
                  \A r \in 1 .. 4 :
                      \E j \in 1 .. n : queries.attempts[j].form = QueryForms[r]
            /\ pc = "idle" =>
                  /\ completedWeekStats =
                         BodyWeekStats(queries.used, now, currentHighestStage)
                  /\ notesByDate = BodyNotesByDate(queries.used, now)

\* C26 as stated: with a folder set the body render issues its queries in
\* the order folder:"path", "path", path, all pages, a later form only
\* after every earlier form was tried and failed; it goes on with the result
\* of the first query that succeeds, and with no record when every query
\* fails
C26_QueriesInFixedOrder == C26_InOrder /\ C26_FirstSuccessUsed

\* C26 amended: the same while the cache refresh before the queries does
\* not fail; when it fails only the all-pages query is issued, and its
\* result, or no record when it fails too, is what the render goes on with
C26_QueriesInOrderAfterTouch ==
    /\ queries.touched = "ok" => C26_InOrder /\ C26_FirstSuccessUsed
    /\ queries.touched = "failed" =>
          /\ \A k \in 1 .. Len(queries.attempts) : queries.attempts[k].form = "all"
          /\ Len(queries.attempts) <= 1
          /\ queries.done =>
                /\ Len(queries.attempts) = 1
                /\ queries.used = IF queries.attempts[1].ok THEN pages ELSE << >>

\* the first two forms failed, the bare path succeeded, and the render
\* shows the notes of the folder, fewer than the vault holds
C26_ThirdFormUsed ==
    /\ pc = "idle"
    /\ queries.touched = "ok"
    /\ Len(queries.attempts) = 3
    /\ queries.attempts[3].ok
    /\ queries.used # pages
    /\ queries.used # << >>
    /\ notesByDate # EmptyMap


-----------------------------------------------------------------------------
(* Calls of renderCalendar that overlap.  A call runs up to its first      *)
(* await, in updateMonthDisplay; resumed, it creates its table, makes it   *)
(* this.calendarTable, and runs renderCalendarBody up to the record query; *)
(* resumed again, it runs to the end.  Other calls can start and resume    *)
(* in between.  renders holds where each call stands; contentEl holds the  *)
(* rows of every table created and the tables now in the container.        *)

NoTables == [tables |-> << >>, attached |-> << >>]

\* renderCalendar up to the await in updateMonthDisplay: container.empty()
StartRender ==
    /\ Len(renders) < MaxRenderStarts
    /\ renders' = Append(renders, "header")
    /\ contentEl' = [contentEl EXCEPT !.attached = << >>]
    /\ UNCHANGED <<pages, dataview, now, tz, pc, currentDate, currentHighestStage,
                   completedWeekStats, todoFutureDates, workingFutureDates,
                   overdueDates, notesByDate, revisionMap, weekRows,
                   manuscriptFolder, weekProbe, openTabs, activeTab, lastClick,
                   timers, lastChange, lastRefresh, expectedMonth, renderedSince,
                   queries, calendarTable>>

\* from the end of updateMonthDisplay to the await of the record query in
\* renderCalendarBody: the stage is stored, a new table is created in the
\* container and becomes this.calendarTable, its rows below the header row
\* are removed, completedWeekStats is cleared
ResumeHeader ==
    /\ \E i \in 1 .. Len(renders) :
          /\ renders[i] = "header"
          /\ renders' = [renders EXCEPT ![i] = "body"]
    /\ currentHighestStage' = HighestStage(QueriedPages(TRUE))
    /\ LET table == Len(contentEl.tables) + 1
       IN  /\ contentEl' = [tables |-> Append(contentEl.tables, << >>),
                            attached |-> Append(contentEl.attached, table)]
           /\ calendarTable' = table
    /\ completedWeekStats' = EmptyMap
    /\ UNCHANGED <<pages, dataview, now, tz, pc, currentDate,
                   todoFutureDates, workingFutureDates,
                   overdueDates, notesByDate, revisionMap, weekRows,
                   manuscriptFolder, weekProbe, openTabs, activeTab, lastClick,
                   timers, lastChange, lastRefresh, expectedMonth, renderedSince,
                   queries>>

\* renderCalendarBody from the record query on, in a view whose week
\* buckets and table another render may have filled: the scenes are added
\* to this.completedWeekStats as it stands, and the week rows are created
\* in this.calendarTable as it stands
RenderBodyOnto(pgs) ==
    LET today == now
        stats == AccumulateWeekStats(completedWeekStats,
                     processedScenes(pgs, TodayAfterFilters(pgs, today)),
                     currentHighestStage)
        rm == BodyRevisionMap(pgs, today)
        nbd == BodyNotesByDate(pgs, today)
        todo == BodyTodoFutureDates(pgs, today)
        working == BodyWorkingFutureDates(pgs, today)
        overdue == BodyOverdueDates(pgs, today)
    IN  /\ completedWeekStats' = stats
        /\ contentEl' =
               [contentEl EXCEPT !.tables[calendarTable] =
                   contentEl.tables[calendarTable]
                   \o BuildRows(firstDisplayDayOf(currentDate), lastDayOf(currentDate),
                                TodayAfterFilters(pgs, today), GetMonth(currentDate),
                                stats, currentHighestStage, rm, nbd, todo, working, overdue)]

\* a call of renderCalendar resumes from the record query and runs to its
\* end
ResumeBody ==
    /\ \E i \in 1 .. Len(renders) :
          /\ renders[i] = "body"
          /\ renders' = [renders EXCEPT ![i] = "done"]
    /\ RenderBodyOnto(QueriedPages(TRUE))
    /\ UNCHANGED <<pages, dataview, now, tz, pc, currentDate, currentHighestStage,
                   todoFutureDates, workingFutureDates,
                   overdueDates, notesByDate, revisionMap, weekRows,
                   manuscriptFolder, weekProbe, openTabs, activeTab, lastClick,
                   timers, lastChange, lastRefresh, expectedMonth, renderedSince,
                   queries, calendarTable>>

OverlapTemplates(T) ==
    { Note(Str("Scene"), Str("Complete"), DueStr(T - 1), <<0>>, Str("AUTHOR"), WordsNum(1200)),
      Note(Str("Scene"), Str("Todo"), DueStr(T + 1), <<>>, None, NoWords) }

\* onOpen has emptied the container and entered renderCalendar
InitOverlap ==
    /\ tz \in TZOffsets
    /\ \E T \in OpenDays :
          /\ now = T * 24 + 12 - tz
          /\ \E n \in 0 .. MaxOverlapPages : \E f \in [1 .. n -> OverlapTemplates(T)] :
                pages = PageList(f)
    /\ dataview = TRUE
    /\ manuscriptFolder = << >>
    /\ ProbeAtRest
    /\ WorkspaceAtRest
    /\ NotifyAtRest
    /\ expectedMonth = 0
    /\ renderedSince = TRUE
    /\ queries = NoQueries
    /\ renders = << "header" >>
    /\ contentEl = NoTables
    /\ calendarTable = 0
    /\ pc = "idle"
    /\ currentDate = now
    /\ currentHighestStage = "ZERO"
    /\ completedWeekStats = EmptyMap
    /\ todoFutureDates = {}
    /\ workingFutureDates = {}
    /\ overdueDates = {}
    /\ notesByDate = EmptyMap
    /\ revisionMap = EmptyMap
    /\ weekRows = << >>

NextOverlap ==
    \/ StartRender
    \/ ResumeHeader
    \/ ResumeBody

SpecOverlap == InitOverlap /\ [][NextOverlap]_vars

(* C23 *)

\* the week rows one render of the current month creates
C23_RowsOfOneRender ==
    LET today == now
        pgs == QueriedPages(TRUE)
    IN  BuildRows(firstDisplayDayOf(currentDate), lastDayOf(currentDate),
                  TodayAfterFilters(pgs, today), GetMonth(currentDate),
                  BodyWeekStats(pgs, today, currentHighestStage), currentHighestStage,
                  BodyRevisionMap(pgs, today), BodyNotesByDate(pgs, today),
                  BodyTodoFutureDates(pgs, today), BodyWorkingFutureDates(pgs, today),
                  BodyOverdueDates(pgs, today))

\* C23: when renders of a view overlapped and all of them have completed,
\* the view shows the result of one render: the container holds one calendar
\* table, the table holds one set of week rows of the current month, and
\* the week buckets count every qualifying record once
C23_LastRenderWins ==
    (\A i \in 1 .. Len(renders) : renders[i] = "done") =>
        /\ Len(contentEl.attached) = 1
        /\ contentEl.tables[contentEl.attached[1]] = C23_RowsOfOneRender
        /\ completedWeekStats = BodyWeekStats(QueriedPages(TRUE), now, currentHighestStage)

=============================================================================
